---- MODULE Spec2Model ----
(***************************************************************************)
(* Model of the agent loop of local-code (client/agent.py, client/tools.py). *)
(*                                                                         *)
(* Texts are sequences of lexical tokens.  Every token stands for a fixed  *)
(* character string; the regular expressions and the JSON decoder of       *)
(* tools.py are modelled on these tokens by what they do on the            *)
(* characters the tokens stand for:                                        *)
(*   "TO"  <tool_call>          "TC"  </tool_call>                         *)
(*   "FN"  ```                  "FJ"  ```json                              *)
(*   "WS"  white space          "TX"  prose without special characters     *)
(*   "LB"  {    "RB"  }    "CL"  :    "CM"  ,                              *)
(*   "TH"  <think>   "TE"  </think>   "TT"  text inside a think span       *)
(*   "RQ"  <request_claude>reason: help</request_claude>                   *)
(*   "DN"  200000 opening square brackets [[[[...                          *)
(* JSON string literals (with their quotes):                               *)
(*   "KT" "tool"   "KA" "args"   "KP" "path"   "KN" "content"              *)
(*   "KM" "command"   "KQ" "question"  "KY" "query"     "KO" "timeout"     *)
(*   "NR" "read_file"   "NW" "write_file"   "NC" "run_command"             *)
(*   "NG" "git_status"  "NA" "ask_claude"   "NU" "delete_file"             *)
(*   "SP" "x.py"       a relative path (contains a non-word character)     *)
(*   "SQ" "/w/x.py"    an absolute path, /w being the base directory       *)
(*   "SJ" "/w/other"   the absolute path of any other file                 *)
(*   "SV" "D:x.py"     a path with a drive and no root                     *)
(*   "SB" "f(){}"      a string that contains braces                       *)
(*   "SK" "a`b"        a string that contains one backtick                 *)
(*   "SC" "npm test"   a command     "SD" "rm -rf build"  a denied command *)
(*   "SU" "RM -RF build"  the denied command in capital letters            *)
(*   "SN" "v2"         a file content    "SH" "how?"   a question          *)
(*   "NL" "list_files"  "NS" "search_code"  "ND" "git_diff"                *)
(* JSON literals that are no strings:                                      *)
(*   "VN"  null                 "V5"  5                                    *)
(* Other words of a message:                                               *)
(*   "CW"  the word claude       "FB"  [Claude feedback: ...]              *)
(*   "TR"  Tool results: and a line break                                  *)
(***************************************************************************)
EXTENDS Integers, Sequences, FiniteSets, TLC

\* ------------------------------------------------------------------------
\* Lexical classes of the tokens
\* ------------------------------------------------------------------------
KeyTokens == {"KT", "KA", "KP", "KN", "KM", "KQ", "KY", "KO"}
NameTokens == {"NR", "NW", "NC", "NG", "NA", "NU", "NL", "NS", "ND"}
StrTokens == KeyTokens \cup NameTokens \cup {"SP", "SQ", "SJ", "SV", "SB", "SK", "SC", "SD", "SU", "SN", "SH"}
\* null and a number
LitTokens == {"VN", "V5"}
Tokens == {"TO", "TC", "FN", "FJ", "WS", "TX", "LB", "RB", "CL", "CM",
           "TH", "TE", "TT", "RQ", "DN", "CW", "FB", "TR"} \cup StrTokens \cup LitTokens

\* the token is a JSON string literal
IsStr(t) == t \in StrTokens
\* the quoted content matches \w+ (pattern 3 captures the tool name with "(\w+)")
IsWordStr(t) == t \in KeyTokens \cup NameTokens
\* the characters of the token contain '}' (what [^}] refuses)
HasRB(t) == t \in {"RB", "SB"}
\* the characters of the token contain a backtick (what [^`] refuses)
HasTick(t) == t \in {"FN", "FJ", "SK"}
\* the token starts with three backticks
IsFence(t) == t \in {"FN", "FJ"}

RECURSIVE SkipWS(_, _)
\* \s* : index of the first token at or after i that is not white space
SkipWS(s, i) ==
    IF i <= Len(s) /\ s[i] = "WS" THEN SkipWS(s, i + 1) ELSE i

RECURSIVE FirstRB(_, _)
\* index of the first token at or after i that contains '}', 0 when there is none
FirstRB(s, i) ==
    IF i > Len(s) THEN 0
    ELSE IF HasRB(s[i]) THEN i
    ELSE FirstRB(s, i + 1)

RECURSIVE FirstTick(_, _)
\* index of the first token at or after i that contains a backtick, 0 when none
FirstTick(s, i) ==
    IF i > Len(s) THEN 0
    ELSE IF HasTick(s[i]) THEN i
    ELSE FirstTick(s, i + 1)

RECURSIVE LastNonWS(_, _)
\* index of the last token at or before i that is not white space (0 if none)
LastNonWS(s, i) ==
    IF i < 1 THEN 0
    ELSE IF s[i] = "WS" THEN LastNonWS(s, i - 1)
    ELSE i

\* ------------------------------------------------------------------------
\* json.loads on a token sequence.  A decoded value is
\*   [k |-> "str", s |-> token, m |-> {}]            a string
\*   [k |-> "obj", s |-> "",    m |-> {<<key, value>>}]  a mapping
\*   [k |-> "lit", s |-> token, m |-> {}]            None or a number
\* A decoding result is [ok, v, j, x]: ok with the value v and the index j
\* after it; otherwise x = FALSE stands for json.JSONDecodeError and
\* x = TRUE for RecursionError, which is no JSONDecodeError.
\* ------------------------------------------------------------------------
JStr(t) == [k |-> "str", s |-> t, m |-> {}]
JObj(pairs) == [k |-> "obj", s |-> "", m |-> pairs]
JLit(t) == [k |-> "lit", s |-> t, m |-> {}]
JOk(val, next) == [ok |-> TRUE, v |-> val, j |-> next, x |-> FALSE]
JFail == [ok |-> FALSE, v |-> JStr("TX"), j |-> 0, x |-> FALSE]
\* the scanner recurses into nested arrays until the interpreter stops it
JRecursionError == [ok |-> FALSE, v |-> JStr("TX"), j |-> 0, x |-> TRUE]

\* dict item assignment: a repeated key keeps the last value
JPut(pairs, key, val) == {p \in pairs : p[1] # key} \cup {<<key, val>>}
JHasKey(v, key) == v.k = "obj" /\ \E p \in v.m : p[1] = key
JGet(v, key) == (CHOOSE p \in v.m : p[1] = key)[2]

RECURSIVE JsonValue(_, _), JsonObject(_, _, _, _)
\* one JSON value starting at or after i
JsonValue(s, i) ==
    LET a == SkipWS(s, i) IN
    IF a > Len(s) THEN JFail
    ELSE IF IsStr(s[a]) THEN JOk(JStr(s[a]), a + 1)
    ELSE IF s[a] \in LitTokens THEN JOk(JLit(s[a]), a + 1)
    ELSE IF s[a] = "LB" THEN JsonObject(s, a + 1, {}, FALSE)
    ELSE IF s[a] = "DN" THEN JRecursionError
    ELSE JFail

\* the members of an object after '{' (afterComma = FALSE) or after ','
JsonObject(s, i, pairs, afterComma) ==
    LET a == SkipWS(s, i) IN
    IF a > Len(s) THEN JFail
    ELSE IF s[a] = "RB" /\ ~afterComma
         THEN JOk(JObj(pairs), a + 1)
    ELSE IF ~IsStr(s[a]) THEN JFail
    ELSE LET b == SkipWS(s, a + 1) IN
         IF b > Len(s) \/ s[b] # "CL" THEN JFail
         ELSE LET val == JsonValue(s, b + 1) IN
              IF ~val.ok THEN val
              ELSE LET c == SkipWS(s, val.j)
                       np == JPut(pairs, s[a], val.v) IN
                   IF c > Len(s) THEN JFail
                   ELSE IF s[c] = "CM" THEN JsonObject(s, c + 1, np, TRUE)
                   ELSE IF s[c] = "RB"
                        THEN JOk(JObj(np), c + 1)
                   ELSE JFail

\* json.loads(text): one value, nothing but white space after it
JsonLoads(s) ==
    LET r == JsonValue(s, 1) IN
    IF ~r.ok THEN r
    ELSE IF SkipWS(s, r.j) > Len(s) THEN r ELSE JFail

\* ------------------------------------------------------------------------
\* parse_tool_calls (tools.py): three re.findall passes over the same text
\* ------------------------------------------------------------------------
NoMatch == [ok |-> FALSE, g |-> <<>>, n |-> "TX", e |-> 0]

\* pattern1 = <tool_call>\s*(\{[^}]+\})\s*</tool_call> tried at position i:
\* [^}]+ runs to the first '}' of the text, which has to close the group
Pattern1At(s, i) ==
    IF s[i] # "TO" THEN NoMatch
    ELSE LET j == SkipWS(s, i + 1) IN
         IF j > Len(s) \/ s[j] # "LB" THEN NoMatch
         ELSE LET r == FirstRB(s, j + 1) IN
              IF r = 0 \/ r < j + 2 \/ s[r] # "RB" THEN NoMatch
              ELSE LET c == SkipWS(s, r + 1) IN
                   IF c > Len(s) \/ s[c] # "TC" THEN NoMatch
                   ELSE [ok |-> TRUE, g |-> SubSeq(s, j, r), n |-> "TX", e |-> c]

\* pattern2 = ```(?:json)?\s*(\{[^`]*"tool"[^`]*\})\s*``` tried at position i:
\* the group runs from the brace after the fence to the last '}' before the
\* next backtick, which has to start the closing fence
Pattern2At(s, i) ==
    IF ~IsFence(s[i]) THEN NoMatch
    ELSE LET j == SkipWS(s, i + 1) IN
         IF j > Len(s) \/ s[j] # "LB" THEN NoMatch
         ELSE LET c == FirstTick(s, j + 1) IN
              IF c = 0 \/ ~IsFence(s[c]) THEN NoMatch
              ELSE LET r == LastNonWS(s, c - 1) IN
                   IF r <= j \/ s[r] # "RB" THEN NoMatch
                   ELSE IF ~\E t \in (j + 1)..(r - 1) : s[t] = "KT" THEN NoMatch
                   ELSE [ok |-> TRUE, g |-> SubSeq(s, j, r), n |-> "TX", e |-> c]

\* pattern3 = \{\s*"tool"\s*:\s*"(\w+)"\s*,\s*"args"\s*:\s*(\{[^}]*\})\s*\}
\* tried at position i; n is the captured tool name, g the captured args text
Pattern3At(s, i) ==
    IF s[i] # "LB" THEN NoMatch
    ELSE LET a == SkipWS(s, i + 1) IN
    IF a > Len(s) \/ s[a] # "KT" THEN NoMatch
    ELSE LET b == SkipWS(s, a + 1) IN
    IF b > Len(s) \/ s[b] # "CL" THEN NoMatch
    ELSE LET c == SkipWS(s, b + 1) IN
    IF c > Len(s) \/ ~IsWordStr(s[c]) THEN NoMatch
    ELSE LET d == SkipWS(s, c + 1) IN
    IF d > Len(s) \/ s[d] # "CM" THEN NoMatch
    ELSE LET f == SkipWS(s, d + 1) IN
    IF f > Len(s) \/ s[f] # "KA" THEN NoMatch
    ELSE LET h == SkipWS(s, f + 1) IN
    IF h > Len(s) \/ s[h] # "CL" THEN NoMatch
    ELSE LET j == SkipWS(s, h + 1) IN
    IF j > Len(s) \/ s[j] # "LB" THEN NoMatch
    ELSE LET r == FirstRB(s, j + 1) IN
    IF r = 0 \/ s[r] # "RB" THEN NoMatch
    ELSE LET z == SkipWS(s, r + 1) IN
    IF z > Len(s) \/ s[z] # "RB" THEN NoMatch
    ELSE [ok |-> TRUE, g |-> SubSeq(s, j, r), n |-> s[c], e |-> z]

\* pattern p (1, 2 or 3) tried at position i
MatchAt(p, s, i) ==
    IF p = 1 THEN Pattern1At(s, i)
    ELSE IF p = 2 THEN Pattern2At(s, i)
    ELSE Pattern3At(s, i)

RECURSIVE FindAll(_, _, _)
\* re.findall: leftmost matches, the scan resumes after the end of a match
FindAll(p, s, i) ==
    IF i > Len(s) THEN <<>>
    ELSE LET m == MatchAt(p, s, i) IN
         IF m.ok THEN <<m>> \o FindAll(p, s, m.e + 1)
         ELSE FindAll(p, s, i + 1)

\* membership test of a Python list (call not in tool_calls)
InList(x, list) == \E i \in 1..Len(list) : list[i] = x

\* state of the three passes: the list built so far, and whether an exception
\* has left the function (the list is then never returned)
NoCalls == [raised |-> FALSE, calls |-> <<>>]

RECURSIVE DecodeWhole(_, _)
\* passes 1 and 2: json.loads(match) inside try/except JSONDecodeError;
\* the mapping is appended when it has a "tool" key
DecodeWhole(ms, acc) ==
    IF ms = <<>> \/ acc.raised THEN acc
    ELSE LET d == JsonLoads(Head(ms).g) IN
         DecodeWhole(Tail(ms),
                     IF d.ok /\ JHasKey(d.v, "KT")
                     THEN [acc EXCEPT !.calls = Append(@, d.v)]
                     ELSE IF d.x THEN [acc EXCEPT !.raised = TRUE]
                     ELSE acc)

RECURSIVE DecodeBare(_, _)
\* pass 3: args = json.loads(args_str) inside try/except JSONDecodeError;
\* {"tool": name, "args": args} is appended unless it is already in the list
DecodeBare(ms, acc) ==
    IF ms = <<>> \/ acc.raised THEN acc
    ELSE LET d == JsonLoads(Head(ms).g)
             call == JObj({<<"KT", JStr(Head(ms).n)>>, <<"KA", d.v>>}) IN
         DecodeBare(Tail(ms),
                    IF d.ok /\ ~InList(call, acc.calls)
                    THEN [acc EXCEPT !.calls = Append(@, call)]
                    ELSE IF d.x THEN [acc EXCEPT !.raised = TRUE]
                    ELSE acc)

\* parse_tool_calls(response)
parse_tool_calls(s) ==
    LET t1 == DecodeWhole(FindAll(1, s, 1), NoCalls)
        t2 == DecodeWhole(FindAll(2, s, 1), t1)
    IN  DecodeBare(FindAll(3, s, 1), t2)

\* ------------------------------------------------------------------------
\* State
\* ------------------------------------------------------------------------
VARIABLES
    p_pc,       \* parser run: "off", "input" (text chosen), "parsed"
    p_segs,     \* the segments the input text is made of
    p_result,   \* what parse_tool_calls returned for the text
    r_pc,       \* streaming reader run: "off", "reading", "done"
    r_parts,    \* structure of the streamed text: visible, think span, visible
    r_cuts,     \* positions after which the transport cuts the text into chunks
    r_pos,      \* number of characters delivered so far
    r_reader,   \* full_response, buffer, in_think_mode and the two outputs
    pc,             \* position of agent_chat / run_with_claude
    level,          \* 0: the caller's agent_chat, 1 and 2: the nested ones
    claude_enabled, \* parameters of the running agent_chat
    claude_approved,
    claude_client,  \* TRUE when a ClaudeClient was passed
    sup_client,     \* the ClaudeClient run_with_claude works with
    iteration,
    messages,
    input_messages, \* the message list as the caller passed it
    full_response,
    stream,         \* events the transport has still to deliver
    stop_generation,\* the module-level ESC flag
    listeners,      \* live check_escape_key threads
    windows,        \* msvcrt can be imported
    tool_calls,
    call_idx,       \* index of the call the for loop is at
    tool_results,
    proposal,       \* handler result that waits for its confirmation
    fs,             \* content of the file /w/x.py, or "absent"
    effect,         \* side effect the last step had outside the program
    answer,         \* answer to the prompt of the current call
    h_response,     \* the variable response of run_with_claude
    sup_log,        \* requests sent to the supervisor so far
    notices,        \* status lines shown to the user
    result,         \* what the caller's agent_chat returned
    llm_kind,       \* what the model of this run can answer besides the plain answers
    llm_level,      \* nesting depth at which it gives those answers
    iter_base,      \* the message list as the current iteration found it
    crash,          \* the statement an uncaught exception came from, or "none"
    plan_result,    \* what claude_client.plan returned to run_with_claude
    review_result,  \* what claude_client.review returned to run_with_claude
    prompts,        \* the hand-off prompts shown so far and how they were answered
    sup_mode,       \* mode of the ClaudeClient: "cli" or "api"
    esc_in_command, \* a listener has read ESC while a run_command call was under way
    c_pc,       \* ClaudeClient.chat run: "off", then the statement it is at
    c_mode,     \* self.mode
    c_system,   \* a system prompt was passed
    c_env,      \* what the process / the HTTP exchange did
    c_out,      \* what chat returned, or the exception that left it
    t_pc,       \* APIClient._stream_sse run: "off", then the statement it is at
    t_attempt,  \* the loop variable attempt
    t_last_error,
    t_log,      \* connection attempts, sleeps and yields so far
    t_error     \* the exception that left the generator, or "none"

parserVars == <<p_pc, p_segs, p_result>>
readerVars == <<r_pc, r_parts, r_cuts, r_pos, r_reader>>
agentVars == <<pc, level, claude_enabled, claude_approved, claude_client, sup_client,
               iteration, messages, input_messages, full_response, stream,
               stop_generation, listeners, windows, tool_calls, call_idx,
               tool_results, proposal, fs, effect, answer, h_response, sup_log,
               notices, result, llm_kind, llm_level, iter_base, crash,
               plan_result, review_result, prompts, sup_mode, esc_in_command>>
chatVars == <<c_pc, c_mode, c_system, c_env, c_out>>
streamVars == <<t_pc, t_attempt, t_last_error, t_log, t_error>>
vars == <<parserVars, readerVars, agentVars, chatVars, streamVars>>

\* ------------------------------------------------------------------------
\* Input texts of the parser: what a model response is made of
\* ------------------------------------------------------------------------
\* number of segments of an input text
MaxSegs == 2

ArgKinds == {"empty", "path", "brace", "nested", "tick"}
\* the wrapping conventions of the prompt revisions: <tool_call> block,
\* fenced json block, bare JSON object
Conventions == {"tagged", "fenced", "bare"}

\* json.dumps of the args mapping
ArgsTokens(a) ==
    CASE a = "empty"  -> <<"LB", "RB">>
      [] a = "path"   -> <<"LB", "KP", "CL", "WS", "SP", "RB">>
      [] a = "brace"  -> <<"LB", "KP", "CL", "WS", "SB", "RB">>
      [] a = "nested" -> <<"LB", "KP", "CL", "WS", "LB", "KP", "CL", "WS", "SP", "RB", "RB">>
      [] a = "tick"   -> <<"LB", "KP", "CL", "WS", "SK", "RB">>

\* the mapping those characters denote
ArgsValue(a) ==
    CASE a = "empty"  -> JObj({})
      [] a = "path"   -> JObj({<<"KP", JStr("SP")>>})
      [] a = "brace"  -> JObj({<<"KP", JStr("SB")>>})
      [] a = "nested" -> JObj({<<"KP", JObj({<<"KP", JStr("SP")>>})>>})
      [] a = "tick"   -> JObj({<<"KP", JStr("SK")>>})

\* json.dumps({"tool": name, "args": args})
CallTokens(name, a) ==
    <<"LB", "KT", "CL", "WS", name, "CM", "WS", "KA", "CL", "WS">> \o ArgsTokens(a) \o <<"RB">>
CallValue(name, a) ==
    JObj({<<"KT", JStr(name)>>, <<"KA", ArgsValue(a)>>})

\* a well-formed call written in one convention
CallSegments ==
    [kind : Conventions, name : {"NR", "NW"}, args : ArgKinds]
\* other things a response contains: prose, a call without args, a candidate
\* that a pattern matches but that is not JSON (the value of "path" is missing),
\* a bare call whose "path" is 200000 opening brackets
OtherSegments ==
    [kind : {"prose", "tagged_noargs", "fenced_noargs", "bad_tagged", "bad_fenced",
             "bad_bare", "deep_bare"},
     name : {"NR"}, args : {"empty"}]
Segments == CallSegments \cup OtherSegments

IsBadSegment(g) == g.kind \in {"bad_tagged", "bad_fenced", "bad_bare"}
BadBody == <<"LB", "KT", "CL", "WS", "NR", "CM", "WS", "KA", "CL", "WS", "LB", "KP", "CL", "RB", "RB">>
DeepBody == <<"LB", "KT", "CL", "WS", "NR", "CM", "WS", "KA", "CL", "WS", "LB", "KP", "CL", "WS", "DN", "RB", "RB">>
NoArgsBody(name) == <<"LB", "KT", "CL", "WS", name, "RB">>

SegmentTokens(g) ==
    CASE g.kind = "tagged" -> <<"TO">> \o CallTokens(g.name, g.args) \o <<"TC">>
      [] g.kind = "fenced" -> <<"FJ", "WS">> \o CallTokens(g.name, g.args) \o <<"WS", "FN">>
      [] g.kind = "bare"   -> CallTokens(g.name, g.args)
      [] g.kind = "prose"  -> <<"TX">>
      [] g.kind = "tagged_noargs" -> <<"TO">> \o NoArgsBody(g.name) \o <<"TC">>
      [] g.kind = "fenced_noargs" -> <<"FJ", "WS">> \o NoArgsBody(g.name) \o <<"WS", "FN">>
      [] g.kind = "bad_tagged" -> <<"TO", "LB", "KT", "CL", "RB", "TC">>
      [] g.kind = "bad_fenced" -> <<"FJ", "WS">> \o BadBody \o <<"WS", "FN">>
      [] g.kind = "bad_bare"   -> BadBody
      [] g.kind = "deep_bare"  -> DeepBody

RECURSIVE TextOf(_)
\* the response text: the segments, each followed by a line break
TextOf(segs) ==
    IF segs = <<>> THEN <<>>
    ELSE SegmentTokens(Head(segs)) \o <<"WS">> \o TextOf(Tail(segs))

SegLists == UNION {[1..n -> Segments] : n \in 1..MaxSegs}

\* ------------------------------------------------------------------------
\* Parser run
\* ------------------------------------------------------------------------
ParserOff == p_pc = "off" /\ p_segs = <<>> /\ p_result = NoCalls

ParserInput ==
    /\ p_pc = "input"
    /\ p_segs \in SegLists
    /\ p_result = NoCalls

\* tool_calls = parse_tool_calls(full_response)
ParseStep ==
    /\ p_pc = "input"
    /\ p_result' = parse_tool_calls(TextOf(p_segs))
    /\ p_pc' = "parsed"
    /\ UNCHANGED <<p_segs, readerVars, agentVars, chatVars, streamVars>>

\* ------------------------------------------------------------------------
\* Streaming reader (agent.py, the token branch of the chat_stream loop).
\* Here a text is a sequence of characters.
\* ------------------------------------------------------------------------
ThinkOpen == <<"<", "t", "h", "i", "n", "k", ">">>
ThinkClose == <<"<", "/", "t", "h", "i", "n", "k", ">">>
\* characters kept back when no marker is found (buffer[-10:])
Lookback == 10

\* str.find: index of the first occurrence of mark in buf, 0 when absent
Find(buf, mark) ==
    LET hits == {i \in 1..(Len(buf) - Len(mark) + 1) :
                    SubSeq(buf, i, i + Len(mark) - 1) = mark}
    IN  IF hits = {} THEN 0 ELSE CHOOSE i \in hits : \A k \in hits : i <= k

\* variant: only the last three characters are kept back
SafeLenKeepsThree(buf) == IF Len(buf) > 3 THEN Len(buf) - 3 ELSE 0
\* number of characters flushed when no marker is found: buffer[:-10]
SafeLen(buf) == IF Len(buf) > Lookback THEN Len(buf) - Lookback ELSE 0

\* print_token(text, dim): the text goes to the visible or to the dimmed output
Emit(st, text, dim) ==
    IF dim THEN [st EXCEPT !.dimmed = @ \o text]
    ELSE [st EXCEPT !.visible = @ \o text]

RECURSIVE Drain(_)
\* the "while True" loop that follows buffer += content
Drain(st) ==
    LET buf == st.buffer IN
    IF ~st.in_think
    THEN LET k == Find(buf, ThinkOpen) IN
         IF k # 0
         THEN Drain([Emit(st, SubSeq(buf, 1, k - 1), FALSE)
                        EXCEPT !.in_think = TRUE,
                               !.buffer = SubSeq(buf, k + 7, Len(buf))])
         ELSE [Emit(st, SubSeq(buf, 1, SafeLen(buf)), FALSE)
                  EXCEPT !.buffer = SubSeq(buf, SafeLen(buf) + 1, Len(buf))]
    ELSE LET k == Find(buf, ThinkClose) IN
         IF k # 0
         THEN Drain([Emit(st, SubSeq(buf, 1, k - 1), TRUE)
                        EXCEPT !.in_think = FALSE,
                               !.buffer = SubSeq(buf, k + 8, Len(buf))])
         ELSE [Emit(st, SubSeq(buf, 1, SafeLen(buf)), TRUE)
                  EXCEPT !.buffer = SubSeq(buf, SafeLen(buf) + 1, Len(buf))]

\* chunk_type == "token"
OnToken(st, content) ==
    Drain([st EXCEPT !.full = @ \o content, !.buffer = @ \o content])

\* chunk_type == "done": the rest of the buffer is printed in the current style
OnDone(st) ==
    [Emit(st, st.buffer, st.in_think) EXCEPT !.buffer = <<>>]

ReaderStart == [full |-> <<>>, buffer |-> <<>>, in_think |-> FALSE,
                visible |-> <<>>, dimmed |-> <<>>]

\* --- streamed texts ---
\* number of places where the transport cuts the text
MaxCuts == 2

BodyE == <<>>
BodyS == <<"a", "b">>
BodyL == <<"a", "b", "c", "d", "e", "f", "g", "h", "i", "j", "<">>
\* the beginning of a marker that is not one
DecoyV == <<"<", "t", "h">>
DecoyT == <<"<", "/", "t">>

\* a second think span and the visible text after it
Again == ThinkOpen \o <<"x", "y">> \o ThinkClose \o <<"z">>

\* visible text, then (span) a think span with content t1 and visible text
\* v2, then (again) the second span
TextParts ==
    [v1 : {BodyE, BodyS, BodyL, DecoyV}, span : BOOLEAN,
     t1 : {BodyE, BodyS, BodyL, DecoyT}, v2 : {BodyE, BodyS}, again : BOOLEAN]

\* the text a part structure stands for
PartsText(ps) ==
    ps.v1 \o (IF ps.span THEN ThinkOpen \o ps.t1 \o ThinkClose \o ps.v2 ELSE <<>>)
          \o (IF ps.again THEN Again ELSE <<>>)

RECURSIVE CutSetsUpTo(_, _)
\* the sets of at most k cut positions inside a text of n characters
CutSetsUpTo(n, k) ==
    IF k = 0 THEN {{}}
    ELSE LET less == CutSetsUpTo(n, k - 1) IN
         less \cup {c \cup {x} : c \in less, x \in 1..(n - 1)}
CutSets(n) == CutSetsUpTo(n, MaxCuts)

\* end of the chunk that starts after position pos
ChunkEnd(text, cuts, pos) ==
    LET later == {c \in cuts : c > pos} IN
    IF later = {} THEN Len(text) ELSE CHOOSE c \in later : \A d \in later : c <= d

ReaderOff ==
    /\ r_pc = "off"
    /\ r_parts = [v1 |-> <<>>, span |-> FALSE, t1 |-> <<>>, v2 |-> <<>>, again |-> FALSE]
    /\ r_cuts = {} /\ r_pos = 0 /\ r_reader = ReaderStart

ReaderInput ==
    /\ r_pc = "reading"
    /\ r_parts \in {ps \in TextParts : ~ps.span => (ps.t1 = <<>> /\ ps.v2 = <<>> /\ ~ps.again)}
    /\ r_cuts \in CutSets(Len(PartsText(r_parts)))
    /\ r_pos = 0
    /\ r_reader = ReaderStart

\* one token event: the next chunk of the text
ReadToken ==
    /\ r_pc = "reading"
    /\ r_pos < Len(PartsText(r_parts))
    /\ LET text == PartsText(r_parts)
           e == ChunkEnd(text, r_cuts, r_pos) IN
       /\ r_reader' = OnToken(r_reader, SubSeq(text, r_pos + 1, e))
       /\ r_pos' = e
    /\ UNCHANGED <<r_pc, r_parts, r_cuts, parserVars, agentVars, chatVars, streamVars>>

\* the done event that ends the stream
ReadDone ==
    /\ r_pc = "reading"
    /\ r_pos = Len(PartsText(r_parts))
    /\ r_reader' = OnDone(r_reader)
    /\ r_pc' = "done"
    /\ UNCHANGED <<r_parts, r_cuts, r_pos, parserVars, agentVars, chatVars, streamVars>>

\* ------------------------------------------------------------------------
\* Tool registry and execute_tool (tools.py)
\* ------------------------------------------------------------------------
\* a tool result: status says which mapping it is
\*   "payload"   the normal result of a read-only tool
\*   "error"     {"error": detail}
\*   "proposal"  {"action": ..., "requires_confirmation": True, ...}
\*   "success"   the result the loop builds after a confirmed write / command
\*   "cancelled" {"cancelled": True, "message": "User cancelled"}
Result(status, detail) ==
    [status |-> status, detail |-> detail, path |-> "", old |-> "", new |-> "", command |-> ""]

\* keys of TOOLS
Registered == {"NL", "NR", "NS", "NW", "NG", "ND", "NC"}

\* keyword parameters of the handlers and those without a default
Params(name) ==
    CASE name = "NL" -> {"KP"}
      [] name = "NR" -> {"KP"}
      [] name = "NS" -> {"KY", "KP"}
      [] name = "NW" -> {"KP", "KN"}
      [] name = "NG" -> {"KP"}
      [] name = "ND" -> {"KP"}
      [] name = "NC" -> {"KM", "KP", "KO"}
Required(name) ==
    CASE name = "NR" -> {"KP"}
      [] name = "NS" -> {"KY"}
      [] name = "NW" -> {"KP", "KN"}
      [] name = "NC" -> {"KM"}
      [] OTHER -> {}

JKeys(v) == {q[1] : q \in v.m}
\* args.get(key, default) on a mapping
JGetOr(v, key, default) == IF JHasKey(v, key) THEN JGet(v, key) ELSE default

\* fn(**args) cannot bind: args is no mapping, a key is no parameter, or a
\* parameter without default is missing (TypeError)
BindFails(name, args) ==
    \/ args.k # "obj"
    \/ ~(JKeys(args) \subseteq Params(name))
    \/ ~(Required(name) \subseteq JKeys(args))

\* str.lower() of a command
Lower(cmd) == IF cmd = "SU" THEN "SD" ELSE cmd
\* variant: the command is compared as it was written
IsDangerousAsWritten(cmd) == cmd = "SD"
\* any(d in command.lower() for d in dangerous)
IsDangerous(cmd) == Lower(cmd) = "SD"

\* the timeout subprocess.run is given for a proposed command:
\* result.get("timeout", 30), where run_command put its parameter timeout
\* (default 30) into the proposal as the call gave it; None is no limit
RunTimeout(args) ==
    IF ~JHasKey(args, "KO") THEN [finite |-> TRUE, seconds |-> 30]
    ELSE IF JGet(args, "KO") = JLit("V5") THEN [finite |-> TRUE, seconds |-> 5]
    ELSE [finite |-> FALSE, seconds |-> 0]

\* the file a path string names: only /w/x.py is a file of the model
FileAt(file, pathTok) == IF pathTok = "SQ" THEN file ELSE "absent"

\* the handler behind a registered name; file is the content of /w/x.py,
\* env the outcome of what the handler asks the system for.
\* Gives the value returned, whether an exception left the handler, and the
\* side effect of the handler.
Handler(name, args, file, env) ==
    LET path == JGetOr(args, "KP", JStr("SP"))
        ret(r) == [raised |-> FALSE, res |-> r, eff |-> "none"]
    IN
    CASE name = "NR" ->
            \* read_file: everything inside try/except
            IF path.k # "str" THEN ret(Result("error", "TypeError"))
            ELSE IF FileAt(file, path.s) = "absent" THEN ret(Result("error", "File not found"))
            ELSE ret(Result("payload", FileAt(file, path.s)))
      [] name = "NW" ->
            \* write_file: reads the old content, writes nothing
            IF path.k # "str" THEN ret(Result("error", "TypeError"))
            ELSE LET content == JGet(args, "KN")
                     old == FileAt(file, path.s) IN
                 ret([Result("proposal", "write_file") EXCEPT
                        !.path = path.s,
                        !.old = IF old = "absent" THEN "" ELSE old,
                        !.new = IF content.k = "str" THEN content.s ELSE "obj"])
      [] name = "NC" ->
            \* run_command: no try/except; command.lower() needs a string
            LET command == JGet(args, "KM") IN
            IF command.k # "str"
            THEN [raised |-> TRUE, res |-> Result("error", "AttributeError"), eff |-> "none"]
            ELSE IF IsDangerous(command.s) THEN ret(Result("error", "Dangerous command blocked"))
            ELSE ret([Result("proposal", "run_command") EXCEPT
                        !.command = command.s,
                        !.path = IF path.k = "str" THEN path.s ELSE "obj"])
      [] name \in {"NG", "ND"} ->
            \* git_status, git_diff: subprocess.run(["git", ...])
            [raised |-> FALSE,
             res |-> IF env = "ok" THEN Result("payload", "git") ELSE Result("error", "git"),
             eff |-> "spawn"]
      [] OTHER ->
            \* list_files, search_code: read the tree
            IF path.k # "str" THEN ret(Result("error", "TypeError"))
            ELSE ret(Result("payload", "listing"))

\* variant: fn(**args) is called outside any try
execute_tool_unguarded(name, args, file, env) ==
    IF name = "obj"
    THEN [raised |-> TRUE, res |-> Result("error", "TypeError"), eff |-> "none"]
    ELSE IF name \notin Registered
    THEN [raised |-> FALSE, res |-> Result("error", "Unknown tool"), eff |-> "none"]
    ELSE IF BindFails(name, args)
    THEN [raised |-> TRUE, res |-> Result("error", "TypeError"), eff |-> "none"]
    ELSE Handler(name, args, file, env)
\* execute_tool(tool_name, args)
execute_tool(name, args, file, env) ==
    IF name = "obj"
    THEN \* "tool_name not in TOOLS" hashes the name: TypeError for a mapping
         [raised |-> TRUE, res |-> Result("error", "TypeError"), eff |-> "none"]
    ELSE IF name \notin Registered
    THEN [raised |-> FALSE, res |-> Result("error", "Unknown tool"), eff |-> "none"]
    ELSE IF BindFails(name, args)
    THEN [raised |-> FALSE, res |-> Result("error", "TypeError"), eff |-> "none"]
    ELSE LET h == Handler(name, args, file, env) IN
         IF h.raised
         THEN [raised |-> FALSE, res |-> Result("error", h.res.detail), eff |-> h.eff]
         ELSE h

\* ------------------------------------------------------------------------
\* Agent loop (agent.py): messages, the model's answers, the transport
\* ------------------------------------------------------------------------
MAX_ITERATIONS == 10

\* a message {"role": ..., "content": ...}; the content is described by
\*   kind "prompt"        the system prompt
\*        "request"       what the user typed (text)
\*        "assistant"     a model response (text)
\*        "tool_results"  "Tool results:\n" (text) followed by the rendered
\*                        results (results)
\*        "execution"     the plan handed to the local model by run_with_claude
\*        "continue"      "Continue with:\n" and the next steps
Msg(role, kind, text, results) ==
    [role |-> role, kind |-> kind, text |-> text, results |-> results]

\* variant: the marker is not looked for
StartsWithMarkerOff(m) == FALSE
\* msg["content"].startswith("Tool results:")
StartsWithMarker(m) == m.text # <<>> /\ m.text[1] = "TR"

InSeq(x, s) == \E i \in 1..Len(s) : s[i] = x

\* detect_claude_keyword(text)
detect_claude_keyword(text) == InSeq("CW", text)

\* variant: the tag is not looked for
parse_claude_request_off(response) == FALSE
\* parse_claude_request(response): the reason of a <request_claude> tag, or None
parse_claude_request(response) == InSeq("RQ", response)

\* the search for the current user request: the last user message that does
\* not start with the marker, "" when there is none
UserRequest(msgs) ==
    LET hits == {i \in 1..Len(msgs) : msgs[i].role = "user" /\ ~StartsWithMarker(msgs[i])}
    IN  IF hits = {} THEN <<>>
        ELSE msgs[CHOOSE i \in hits : \A k \in hits : k <= i].text

\* --- what the model of a run answers ---
\* number of leading iterations of an agent_chat call in which the model may
\* give the answers of its kind; later it gives plain answers only
MaxRich == 1

BareCall(name, args) ==
    <<"LB", "KT", "CL", "WS", name, "CM", "WS", "KA", "CL", "WS">> \o args \o <<"RB">>
FencedCall(name, args) == <<"FJ", "WS">> \o BareCall(name, args) \o <<"WS", "FN">>
PathArg == <<"LB", "KP", "CL", "WS", "SP", "RB">>

RFinal == <<"TX">>
\* an answer that begins with a think span
RThink == <<"TH", "TT", "TE", "TX">>
RRead == BareCall("NR", PathArg)
RWrite == BareCall("NW", <<"LB", "KP", "CL", "WS", "SP", "CM", "WS", "KN", "CL", "WS", "SN", "RB">>)
RRun == BareCall("NC", <<"LB", "KM", "CL", "WS", "SC", "RB">>)
RDanger == BareCall("NC", <<"LB", "KM", "CL", "WS", "SD", "RB">>)
\* a command with "timeout": 5 and one with "timeout": null
RRunTimeout == BareCall("NC", <<"LB", "KM", "CL", "WS", "SC", "CM", "WS", "KO", "CL", "WS", "V5", "RB">>)
RRunNoTimeout == BareCall("NC", <<"LB", "KM", "CL", "WS", "SC", "CM", "WS", "KO", "CL", "WS", "VN", "RB">>)
RDangerUpper == BareCall("NC", <<"LB", "KM", "CL", "WS", "SU", "RB">>)
\* a bare write_file call followed by a fenced run_command call
RMixed == RWrite \o <<"WS">> \o FencedCall("NC", <<"LB", "KM", "CL", "WS", "SC", "RB">>)
RGit == <<"TO", "LB", "KT", "CL", "WS", "NG", "RB", "TC">>
RAsk == BareCall("NA", <<"LB", "KQ", "CL", "WS", "SH", "RB">>)
RUnknown == BareCall("NU", PathArg)
RNoArgs == BareCall("NR", <<"LB", "RB">>)
RBadArg == BareCall("NR", <<"LB", "KQ", "CL", "WS", "SH", "RB">>)
RBadPath == FencedCall("NR", <<"LB", "KP", "CL", "WS", "LB", "KP", "CL", "WS", "SP", "RB", "RB">>)
RTwice == FencedCall("NR", PathArg) \o <<"WS">> \o FencedCall("NR", PathArg)
RRequest == <<"TX", "RQ">>
RAbsolute == BareCall("NR", <<"LB", "KP", "CL", "WS", "SQ", "RB">>)
RDrive == BareCall("NR", <<"LB", "KP", "CL", "WS", "SV", "RB">>)
\* the command is a mapping; the name is a mapping
RBadCommand == FencedCall("NC", <<"LB", "KM", "CL", "WS", "LB", "RB", "RB">>)
\* the content is a mapping; the question is a mapping
RBadContent == FencedCall("NW", <<"LB", "KP", "CL", "WS", "SP", "CM", "WS", "KN", "CL", "WS", "LB", "RB", "RB">>)
RBadQuestion == FencedCall("NA", <<"LB", "KQ", "CL", "WS", "LB", "RB", "RB">>)
RBadName == <<"FJ", "WS", "LB", "KT", "CL", "WS", "LB", "RB", "RB", "WS", "FN">>

\* the model of a run: in the agent_chat call at nesting depth llm_level it
\* gives a final text, a read of x.py or an answer of its kind in the first
\* MaxRich iterations and a final text afterwards, and kind "loop" asks for
\* x.py in every answer; in the calls at other depths it gives a final text.
LlmKinds == {"plain", "loop", "write", "run", "write_run", "danger", "git", "ask", "unknown",
             "badargs", "badvalue", "badpath",
             "badname", "twice", "request", "absolute", "mixed", "timeout", "think"}

\* the kinds of model that are also run inside a nested call
NestedKinds == {"loop", "ask", "write_run", "badpath"}

KindResponses(kind) ==
    CASE kind = "plain"     -> {}
      [] kind = "loop"      -> {}
      [] kind = "write"     -> {RWrite}
      [] kind = "run"       -> {RRun}
      [] kind = "write_run" -> {RWrite \o <<"WS">> \o RRun}
      [] kind = "danger"    -> {RDanger, RDangerUpper}
      [] kind = "git"       -> {RGit}
      [] kind = "ask"       -> {RAsk}
      [] kind = "unknown"   -> {RUnknown}
      [] kind = "badargs"   -> {RNoArgs, RBadArg, RBadCommand}
      [] kind = "badvalue"  -> {RBadContent, RBadQuestion}
      [] kind = "badname"   -> {RBadName}
      [] kind = "badpath"   -> {RBadPath}
      [] kind = "twice"     -> {RTwice}
      [] kind = "request"   -> {RRequest, RRequest \o <<"WS">> \o RRead}
      [] kind = "absolute"  -> {RAbsolute, RDrive}
      [] kind = "mixed"     -> {RMixed}
      [] kind = "timeout"   -> {RRunTimeout, RRunNoTimeout}
      [] kind = "think"     -> {RThink}

\* --- events of client.chat_stream ---
Ev(type, content) == [type |-> type, content |-> content]
EvStart == Ev("start", <<>>)
EvDone == Ev("done", <<>>)
EvError == Ev("error", <<>>)
\* the transport raises instead of delivering an event
EvRaise == Ev("raise", <<>>)

Half(r) == Len(r) \div 2
\* the ways the transport delivers response r
Streams(r) ==
    LET a == SubSeq(r, 1, Half(r))
        b == SubSeq(r, Half(r) + 1, Len(r)) IN
    { <<EvStart, Ev("token", r), EvDone>>,
      <<EvStart, Ev("token", a), Ev("token", b), EvDone>>,
      <<EvStart, Ev("token", a), EvError>>,
      <<EvStart, Ev("token", a), EvRaise>>,
      <<EvRaise>> }

\* ------------------------------------------------------------------------
\* agent_chat and run_with_claude, step by step
\* ------------------------------------------------------------------------
\* live listener threads the model keeps apart
MaxListeners == 2

\* what a step did outside the program (kind: "none", "write", "spawn"), for
\* which tool, and the mapping execute_tool returned in the step
NoEffect == [kind |-> "none", tool |-> "", returned |-> Result("none", "")]
Effect(kind, tool, returned) == [kind |-> kind, tool |-> tool, returned |-> returned]
NoProposal == Result("none", "")
NoResult == [text |-> <<>>, how |-> "none"]

toolVars == <<tool_calls, call_idx, tool_results, proposal, fs, answer>>
flagVars == <<stop_generation, listeners>>
paramVars == <<claude_enabled, claude_approved, claude_client, sup_client>>
\* what no step of an agent run changes: its inputs, and the parser and
\* reader runs
constVars == <<input_messages, windows, llm_kind, llm_level, sup_mode, parserVars, readerVars,
               chatVars, streamVars>>
histVars == <<iter_base, crash>>
handoffVars == <<plan_result, review_result, prompts>>

\* variant: the loop condition admits one iteration more
LoopConditionInclusive == iteration <= MAX_ITERATIONS
\* while iteration < MAX_ITERATIONS
LoopCondition == iteration < MAX_ITERATIONS

\* variant: the new message takes the place of the last one
AppendMsgOverLast(msgs, m) == [msgs EXCEPT ![Len(msgs)] = m]
\* messages.append(m)
AppendMsg(msgs, m) == Append(msgs, m)

\* {"role": "assistant", "content": full_response}
AssistantMsg(text) == Msg("assistant", "assistant", text, <<>>)

\* variant: the tool results are added as an assistant turn
ToolResultsMsgAsAssistant(results) == Msg("assistant", "tool_results", <<"TR">>, results)
\* {"role": "user", "content": "Tool results:\n" + the rendered results}
ToolResultsMsg(results) == Msg("user", "tool_results", <<"TR">>, results)

\* Confirm.ask(prompt, default=...): "y" and "n" answer, the empty reply
\* (Enter) takes the default
Replies == {"y", "n", ""}
\* variant: everything but "n" counts as yes
ConfirmAskUnlessNo(reply, default) == reply # "n"
ConfirmAsk(reply, default) == IF reply = "" THEN default ELSE reply = "y"

\* variant: the text is dropped when agent_chat returns
ReturnWithoutText(resp, how) ==
    IF level = 0
    THEN pc' = "returned" /\ result' = [text |-> <<>>, how |-> how] /\ UNCHANGED h_response
    ELSE /\ pc' = IF level = 1 THEN "review" ELSE "finish"
         /\ h_response' = <<>>
         /\ UNCHANGED result
\* "return response, messages" of the running agent_chat: to the caller, or
\* back into run_with_claude after its first or second nested call
Return(resp, how) ==
    IF level = 0
    THEN pc' = "returned" /\ result' = [text |-> resp, how |-> how] /\ UNCHANGED h_response
    ELSE /\ pc' = IF level = 1 THEN "review" ELSE "finish"
         /\ h_response' = resp
         /\ UNCHANGED result

\* variant: the approval is not looked at
ArmedIgnoresApproval == claude_enabled /\ claude_client
\* the supervisor check both places make: armed, not approved, client given
Armed == claude_enabled /\ ~claude_approved /\ claude_client

\* agent_chat is entered: the keyword check before the first model call
AgentChatStart ==
    /\ pc = "idle"
    /\ pc' = IF Armed /\ detect_claude_keyword(UserRequest(messages))
             THEN "pre_confirm" ELSE "loop"
    /\ effect' = NoEffect
    /\ UNCHANGED <<esc_in_command, handoffVars, level, paramVars, iteration, messages, full_response, stream,
                   flagVars, toolVars, h_response, sup_log, notices, result, constVars, histVars>>

\* Confirm.ask("Claude와 협업할까요?") before the loop
PreConfirm ==
    /\ pc = "pre_confirm"
    /\ \E reply \in Replies :
          /\ pc' = IF ConfirmAsk(reply, TRUE) THEN "plan" ELSE "loop"
          /\ prompts' = Append(prompts, [where |-> "start", granted |-> ConfirmAsk(reply, TRUE)])
    /\ sup_client' = claude_client
    /\ effect' = NoEffect
    /\ UNCHANGED <<esc_in_command, plan_result, review_result, level, claude_enabled, claude_approved, claude_client, iteration,
                   messages, full_response, stream, flagVars, toolVars, h_response,
                   sup_log, notices, result, constVars, histVars>>

\* variant: the thread of the iteration before is ended first
start_escape_listener_joins_old ==
    /\ stop_generation' = FALSE
    /\ listeners' = IF windows THEN 1 ELSE listeners
\* variant: the flag is left as the iteration before set it
start_escape_listener_keeps_flag ==
    /\ UNCHANGED stop_generation
    /\ listeners' = IF windows THEN listeners + 1 ELSE listeners
\* start_escape_listener(): stop_generation = False, and a check_escape_key
\* thread is started (it ends at once where msvcrt cannot be imported)
start_escape_listener ==
    /\ stop_generation' = FALSE
    /\ listeners' = IF windows THEN listeners + 1 ELSE listeners

\* what the model may answer in the iteration that starts
Responses ==
    IF llm_kind = "loop" /\ level = llm_level THEN {RRead}
    ELSE {RFinal} \cup (IF iteration < MaxRich /\ level = llm_level
                        THEN {RRead} \cup KindResponses(llm_kind) ELSE {})

\* while iteration < MAX_ITERATIONS: iteration += 1, start_escape_listener(),
\* and the chat_stream call is set up
StartIteration ==
    /\ pc = "loop"
    /\ LoopCondition
    /\ windows => listeners < MaxListeners
    /\ iteration' = iteration + 1
    /\ start_escape_listener
    /\ full_response' = <<>>
    /\ \E r \in Responses : stream' \in Streams(r)
    /\ pc' = "stream"
    /\ iter_base' = messages
    /\ effect' = NoEffect
    /\ UNCHANGED <<esc_in_command, handoffVars, level, paramVars, messages, toolVars, h_response, sup_log,
                   notices, result, constVars, crash>>

\* the while condition fails: "Max iterations reached"
MaxIterationsReached ==
    /\ pc = "loop"
    /\ ~LoopCondition
    /\ notices' = notices \cup {"max_iterations"}
    /\ Return(full_response, "max_iterations")
    /\ effect' = NoEffect
    /\ UNCHANGED <<esc_in_command, handoffVars, level, paramVars, iteration, messages, full_response, stream,
                   flagVars, toolVars, sup_log, constVars, histVars>>

\* variant: the ESC flag is not looked at
ChunkOutcomeUnchecked(ev, flag) ==
    IF ev.type = "raise" THEN "exception"
    ELSE IF ev.type = "token" THEN "token"
    ELSE IF ev.type = "error" THEN "error"
    ELSE "skip"
\* what one turn of "async for chunk in client.chat_stream(...)" does with
\* the event: the transport raises; else the ESC flag is checked first; else
\* the chunk type decides
ChunkOutcome(ev, flag) ==
    IF ev.type = "raise" THEN "exception"
    ELSE IF flag THEN "stopped"
    ELSE IF ev.type = "token" THEN "token"
    ELSE IF ev.type = "error" THEN "error"
    ELSE "skip"

\* one turn of "async for chunk in client.chat_stream(...)"
StreamEvent ==
    /\ pc = "stream"
    /\ stream # <<>>
    /\ LET ev == Head(stream)
           out == ChunkOutcome(ev, stop_generation) IN
       /\ stream' = Tail(stream)
       /\ IF out = "exception"
          THEN \* except Exception: the error is shown, the text so far returned
               /\ notices' = notices \cup {"error"}
               /\ stop_generation' = TRUE
               /\ Return(full_response, "exception")
               /\ UNCHANGED full_response
          ELSE IF out = "stopped"
          THEN \* stopped = True, break; then stop_generation = True and return
               /\ notices' = notices \cup {"stopped"}
               /\ stop_generation' = TRUE
               /\ Return(full_response, "stopped")
               /\ UNCHANGED full_response
          ELSE IF out = "token"
          THEN /\ full_response' = full_response \o ev.content
               /\ UNCHANGED <<pc, notices, stop_generation, result, h_response>>
          ELSE IF out = "error"
          THEN /\ notices' = notices \cup {"error"}
               /\ stop_generation' = TRUE
               /\ Return(full_response, "error")
               /\ UNCHANGED full_response
          ELSE \* start, done: nothing the loop depends on
               UNCHANGED <<pc, notices, stop_generation, result, h_response, full_response>>
    /\ effect' = NoEffect
    /\ UNCHANGED <<esc_in_command, handoffVars, level, paramVars, iteration, messages, listeners, toolVars,
                   sup_log, constVars, histVars>>

\* variant: the flag is left alone after the stream
EndListenerSkipped == UNCHANGED stop_generation
\* stop_generation = True after the chat_stream loop: the listener is to end
EndListener == stop_generation' = TRUE

\* the stream is exhausted: stop_generation = True, the response is parsed,
\* and the supervisor check is made
StreamEnd ==
    /\ pc = "stream"
    /\ stream = <<>>
    /\ EndListener
    /\ LET parsed == parse_tool_calls(full_response)
           reason == \/ parse_claude_request(full_response)
                     \/ detect_claude_keyword(UserRequest(messages))
       IN /\ tool_calls' = IF parsed.raised THEN tool_calls ELSE parsed.calls
          /\ pc' = IF parsed.raised THEN "raised"
                   ELSE IF Armed /\ reason THEN "claude_confirm"
                   ELSE "dispatch"
          /\ crash' = IF parsed.raised THEN "parse_tool_calls" ELSE crash
    /\ effect' = NoEffect
    /\ UNCHANGED <<esc_in_command, handoffVars, level, paramVars, iteration, messages, full_response, stream,
                   listeners, call_idx, tool_results, proposal, fs, answer,
                   h_response, sup_log, notices, result, constVars, iter_base>>

\* Confirm.ask("Claude와 협업할까요?") inside the loop
ClaudeConfirm ==
    /\ pc = "claude_confirm"
    /\ \E reply \in Replies :
          /\ pc' = IF ConfirmAsk(reply, TRUE) THEN "plan" ELSE "dispatch"
          /\ prompts' = Append(prompts, [where |-> "loop", granted |-> ConfirmAsk(reply, TRUE)])
    /\ sup_client' = claude_client
    /\ effect' = NoEffect
    /\ UNCHANGED <<esc_in_command, plan_result, review_result, level, claude_enabled, claude_approved, claude_client, iteration,
                   messages, full_response, stream, flagVars, toolVars, h_response,
                   sup_log, notices, result, constVars, histVars>>

\* "if not tool_calls: return", else the assistant message is appended and
\* the for loop over the calls starts
Dispatch ==
    /\ pc = "dispatch"
    /\ IF tool_calls = <<>>
       THEN /\ Return(full_response, "final")
            /\ UNCHANGED <<messages, tool_results, call_idx>>
       ELSE /\ messages' = AppendMsg(messages, AssistantMsg(full_response))
            /\ tool_results' = <<>>
            /\ call_idx' = 1
            /\ pc' = "tool"
            /\ UNCHANGED <<result, h_response>>
    /\ effect' = NoEffect
    /\ UNCHANGED <<esc_in_command, handoffVars, level, paramVars, iteration, full_response, stream, flagVars,
                   tool_calls, proposal, fs, answer, sup_log, notices, constVars, histVars>>

\* str(base_path / args["path"]) for a relative path
\* with Windows paths a drive in the argument replaces the base directory:
\* WindowsPath("C:/w") / "D:x.py" is D:x.py
JoinBase(pathTok) ==
    IF pathTok = "SV" /\ windows THEN "SV"
    ELSE IF pathTok = "SP" THEN "SQ" ELSE "SJ"
\* Path(p).is_absolute()
IsAbsolute(pathTok) == pathTok \in {"SQ", "SJ"}

\* if "path" in args and not Path(args["path"]).is_absolute():
\*     args["path"] = str(base_path / args["path"])
\* raised: the test or Path() raises TypeError, which nobody catches
PathAdjust(args) ==
    IF args.k = "str"
    THEN \* substring test on a string, then args["path"] on a string
         [raised |-> args.s = "KP", args |-> args]
    ELSE IF args.k = "lit" THEN \* "path" in None
         [raised |-> TRUE, args |-> args]
    ELSE IF ~JHasKey(args, "KP") THEN [raised |-> FALSE, args |-> args]
    ELSE LET v == JGet(args, "KP") IN
         IF v.k # "str" THEN [raised |-> TRUE, args |-> args]
         ELSE IF IsAbsolute(v.s) THEN [raised |-> FALSE, args |-> args]
         ELSE [raised |-> FALSE,
               args |-> JObj(JPut(args.m, "KP", JStr(JoinBase(v.s))))]

\* call.get("tool"): the name, or "obj" when the value is a mapping
ToolNameOf(call) == LET v == JGet(call, "KT") IN IF v.k = "str" THEN v.s ELSE "obj"

\* variant: the result is put in front of the earlier ones
AdvancePrepending(res) ==
    /\ tool_results' = <<[tool |-> ToolNameOf(tool_calls[call_idx]), result |-> res]>> \o tool_results
    /\ call_idx' = call_idx + 1
\* tool_results.append({"tool": tool_name, "result": result})
Advance(res) ==
    /\ tool_results' = Append(tool_results, [tool |-> ToolNameOf(tool_calls[call_idx]), result |-> res])
    /\ call_idx' = call_idx + 1

\* an exception leaves agent_chat (and run_with_claude, when it is the caller)
Crash(where) ==
    /\ pc' = "raised"
    /\ crash' = where
    /\ effect' = NoEffect
    /\ UNCHANGED <<tool_results, call_idx, proposal, sup_log>>

\* what a request to the supervisor does outside the program: _chat_cli starts
\* the claude process, _chat_api opens a connection
ChatEffect == IF sup_mode = "cli" THEN "spawn" ELSE "none"

\* what claude_client.chat gives the ask_claude branch: a text (an answer or
\* an error-marked text), None ({"result": null}), or an exception of the
\* HTTP error handling in api mode
ChatReplies == {"text", "None"} \cup (IF sup_mode = "api" THEN {"raise"} ELSE {})

\* variant: the question is forwarded only while supervisor mode is on
HasSupervisorWhenArmed == claude_client /\ claude_enabled
\* if claude_client:
HasSupervisor == claude_client

\* variant: a declined prompt is recorded as an error
CancelledAsError == Result("error", "User cancelled")
\* {"cancelled": True, "message": "User cancelled"}
Cancelled == Result("cancelled", "User cancelled")

\* one pass of "for call in tool_calls" up to the confirmation prompt, if any
ExecTool ==
    /\ pc = "tool"
    /\ call_idx <= Len(tool_calls)
    /\ answer' = "none"
    /\ \E env \in {"ok", "fail"} :
       LET call == tool_calls[call_idx]
           tool_name == ToolNameOf(call)
           adj == PathAdjust(JGetOr(call, "KA", JObj({})))
           ex == execute_tool(tool_name, adj.args, fs, env)
       IN
       IF adj.raised THEN Crash("path_adjust")
       ELSE IF ex.raised THEN Crash("execute_tool")
       ELSE IF tool_name = "NW" /\ ex.res.status = "proposal" /\ ex.res.new = "obj"
       THEN \* show_diff: new_content.splitlines() on a mapping
            Crash("show_diff")
       ELSE IF tool_name = "NW" /\ ex.res.status = "proposal"
       THEN /\ pc' = "confirm_write"
            /\ proposal' = ex.res
            /\ effect' = Effect(ex.eff, tool_name, ex.res)
            /\ UNCHANGED <<tool_results, call_idx, sup_log, crash>>
       ELSE IF tool_name = "NC" /\ ex.res.status = "proposal"
       THEN /\ pc' = "confirm_run"
            /\ proposal' = ex.res
            /\ effect' = Effect(ex.eff, tool_name, ex.res)
            /\ UNCHANGED <<tool_results, call_idx, sup_log, crash>>
       ELSE IF tool_name = "NA"
       THEN \* question = args.get("question", ""); question[:100]
            IF adj.args.k # "obj" \/ JGetOr(adj.args, "KQ", JStr("TX")).k # "str"
            THEN Crash("ask_claude")
            ELSE IF HasSupervisor
            THEN \* claude_response = claude_client.chat(question), then
                 \* claude_response[:500] for the console
                 \E reply \in ChatReplies :
                    /\ sup_log' = Append(sup_log, "chat")
                    /\ effect' = Effect(ChatEffect, tool_name, ex.res)
                    /\ IF reply = "text"
                       THEN /\ Advance(Result("success", "claude response"))
                            /\ UNCHANGED <<pc, proposal, crash>>
                       ELSE /\ pc' = "raised"
                            /\ crash' = "claude_response"
                            /\ UNCHANGED <<tool_results, call_idx, proposal>>
            ELSE /\ Advance(Result("error", "Claude not available"))
                 /\ effect' = Effect(ex.eff, tool_name, ex.res)
                 /\ UNCHANGED <<pc, proposal, crash, sup_log>>
       ELSE /\ Advance(ex.res)
            /\ effect' = Effect(ex.eff, tool_name, ex.res)
            /\ UNCHANGED <<pc, proposal, sup_log, crash>>
    /\ UNCHANGED <<esc_in_command, handoffVars, level, paramVars, iteration, messages, full_response, stream,
                   flagVars, tool_calls, fs, h_response, notices, result, constVars,
                   iter_base>>

\* Confirm.ask("Apply changes?", default=False) and, on yes,
\* Path(result["path"]).write_text(result["new_content"])
ConfirmWrite ==
    /\ pc = "confirm_write"
    /\ \E reply \in Replies, written \in BOOLEAN :
       /\ answer' = reply
       /\ IF ~ConfirmAsk(reply, FALSE)
          THEN /\ Advance(Cancelled)
               /\ effect' = NoEffect
               /\ UNCHANGED fs
          ELSE IF written
          THEN /\ Advance([Result("success", "File updated") EXCEPT !.path = proposal.path])
               /\ effect' = Effect("write", "NW", Result("none", ""))
               /\ fs' = IF proposal.path = "SQ" THEN proposal.new ELSE fs
          ELSE \* write_text raised: except Exception
               /\ Advance(Result("error", "write failed"))
               /\ effect' = NoEffect
               /\ UNCHANGED fs
    /\ pc' = "tool"
    /\ proposal' = NoProposal
    /\ UNCHANGED <<esc_in_command, handoffVars, level, paramVars, iteration, messages, full_response, stream,
                   flagVars, tool_calls, h_response, sup_log, notices, result,
                   constVars, histVars>>

\* Confirm.ask("Run this command?", default=False) and, on yes,
\* subprocess.run(result["command"], shell=True, timeout=30)
ConfirmRun ==
    /\ pc = "confirm_run"
    /\ \E reply \in Replies, outcome \in {"zero", "nonzero", "timeout", "exception"} :
       /\ answer' = reply
       \* subprocess.TimeoutExpired needs a limit
       /\ outcome = "timeout" =>
             RunTimeout(PathAdjust(JGetOr(tool_calls[call_idx], "KA", JObj({}))).args).finite
       /\ IF ~ConfirmAsk(reply, FALSE)
          THEN /\ Advance(Cancelled)
               /\ effect' = NoEffect
          ELSE /\ Advance(CASE outcome = "zero" -> Result("success", "returncode 0")
                            [] outcome = "nonzero" -> Result("failure", "returncode 1")
                            [] outcome = "timeout" -> Result("error", "Command timed out")
                            [] outcome = "exception" -> Result("error", "spawn failed"))
               /\ effect' = IF outcome = "exception" THEN NoEffect
                            ELSE Effect("spawn", "NC", Result("none", ""))
    /\ pc' = "tool"
    /\ proposal' = NoProposal
    /\ UNCHANGED <<esc_in_command, handoffVars, level, paramVars, iteration, messages, full_response, stream,
                   flagVars, tool_calls, fs, h_response, sup_log, notices, result,
                   constVars, histVars>>

\* after the for loop: the results go into one user message
EndTools ==
    /\ pc = "tool"
    /\ call_idx > Len(tool_calls)
    /\ messages' = AppendMsg(messages, ToolResultsMsg(tool_results))
    /\ pc' = "loop"
    /\ effect' = NoEffect
    /\ UNCHANGED <<esc_in_command, handoffVars, level, paramVars, iteration, full_response, stream, flagVars,
                   toolVars, h_response, sup_log, notices, result, constVars, histVars>>

\* --- the supervisor's replies (claude_client.py) ---
\* A reply text is a sequence of "TX" (prose), "WS" (white space), "FJ"
\* (```json), "FN" (```) and whole JSON documents:
\*   "JP"  {"plan": "..", "steps": [".."], "needs_more_info": false, "questions": []}
\*   "JQ"  {"needs_more_info": true, "questions": [".."]}
\*   "JX"  {"needs_more_info": true, "questions": 3}
\*   "JC"  {"status": "continue", "feedback": "..", "next_steps": [".."]}
\*   "JE"  {"status": "continue", "feedback": "..", "next_steps": []}
\*   "JD"  {"status": "completed", "feedback": ".."}
\*   "JA"  []
\*   "JR"  an array nested deeper than the recursion limit
\* and "EM" is the marker a failed chat puts in front of its message:
\* [Claude CLI Error] or [Claude API Error]
Documents == {"JP", "JQ", "JX", "JC", "JE", "JD", "JA", "JR"}

\* what plan() / review() hand to run_with_claude, as far as it is read there:
\* shape "object" (a mapping), "list" (another JSON value), "raise" (the call
\* raised) or "none" (no call yet); raw is the reply text kept as plan /
\* feedback; the other fields are what .get() finds
Reply(shape, raw) ==
    [shape |-> shape, raw |-> raw, needs_more_info |-> FALSE, questions |-> "list",
     steps |-> "absent", status |-> "absent", next_steps |-> "absent"]
NoReply == Reply("none", <<>>)

\* json.loads of one document
DocValue(d) ==
    CASE d = "JP" -> [Reply("object", <<>>) EXCEPT !.steps = "list"]
      [] d = "JQ" -> [Reply("object", <<>>) EXCEPT !.needs_more_info = TRUE]
      [] d = "JX" -> [Reply("object", <<>>) EXCEPT !.needs_more_info = TRUE,
                                                   !.questions = "number"]
      [] d = "JC" -> [Reply("object", <<>>) EXCEPT !.status = "continue",
                                                   !.next_steps = "list"]
      [] d = "JE" -> [Reply("object", <<>>) EXCEPT !.status = "continue",
                                                   !.next_steps = "empty"]
      [] d = "JD" -> [Reply("object", <<>>) EXCEPT !.status = "completed"]
      [] d = "JA" -> Reply("list", <<>>)
      [] d = "JR" -> Reply("raise", <<>>)

\* if "```json" in response: response.split("```json")[1].split("```")[0]
\* elif "```" in response:   response.split("```")[1].split("```")[0]
\* else:                     response
JsonStr(response) ==
    LET First(s, set) == CHOOSE i \in 1..Len(s) :
                            s[i] \in set /\ \A k \in 1..(i - 1) : s[k] \notin set
        After(i) == SubSeq(response, i + 1, Len(response))
        UpToFence(s) == IF \E i \in 1..Len(s) : IsFence(s[i])
                        THEN SubSeq(s, 1, First(s, {"FJ", "FN"}) - 1)
                        ELSE s
    IN  IF InSeq("FJ", response) THEN UpToFence(After(First(response, {"FJ"})))
        ELSE IF InSeq("FN", response) THEN UpToFence(After(First(response, {"FN"})))
        ELSE response

\* json.loads(json_str.strip()): the value of a text that is one document, no
\* value (json.JSONDecodeError) for any other text; the decoder runs into the
\* recursion limit inside "JR" before it looks at what follows
SupLoads(json_str) ==
    LET solid == {i \in 1..Len(json_str) : json_str[i] # "WS"}
        lo == CHOOSE i \in solid : \A k \in solid : i <= k
        hi == CHOOSE i \in solid : \A k \in solid : k <= i
    IN  IF solid # {} /\ json_str[lo] = "JR" THEN DocValue("JR")
        ELSE IF solid # {} /\ lo = hi /\ json_str[lo] \in Documents
        THEN DocValue(json_str[lo])
        ELSE NoReply

\* variant: an error-marked reply is raised as an exception
plan_raising_on_error(response) ==
    IF response # <<>> /\ response[1] = "EM" THEN Reply("raise", response)
    ELSE LET v == SupLoads(JsonStr(response)) IN
         IF v.shape # "none" THEN v
         ELSE [Reply("object", response) EXCEPT !.steps = "empty"]
\* ClaudeClient.plan: the decoded reply, or on json.JSONDecodeError
\* {"plan": response, "steps": [], "needs_more_info": False, "questions": []}
plan(response) ==
    LET v == SupLoads(JsonStr(response)) IN
    IF v.shape # "none" THEN v
    ELSE [Reply("object", response) EXCEPT !.steps = "empty"]

\* ClaudeClient.review: the decoded reply, or on json.JSONDecodeError
\* {"status": "completed", "feedback": response, "next_steps": []}
review(response) ==
    LET v == SupLoads(JsonStr(response)) IN
    IF v.shape # "none" THEN v
    ELSE [Reply("object", response) EXCEPT !.status = "completed", !.next_steps = "empty"]

\* the replies of the supervisor in a run
PlanReplies ==
    { <<"TX">>, <<"TX", "FJ", "WS", "JP", "WS", "FN", "TX">>, <<"JQ">>, <<"JX">>,
      <<"JA">>, <<"JR">>, <<"EM", "TX">> }
ReviewReplies ==
    { <<"TX">>, <<"JC">>, <<"FN", "JE", "FN">>, <<"JD">>, <<"JA">>, <<"JR">> }
\* a run whose model acts in a nested call has a supervisor that plans in JSON
PlanRepliesOfRun == IF llm_level = 0 THEN PlanReplies ELSE PlanReplies \ {<<"TX">>}

\* --- run_with_claude ---
\* variant: the nested call is given the supervisor client
EnterNestedKeepsClient(n) ==
    /\ level' = n
    /\ claude_enabled' = FALSE
    /\ claude_approved' = FALSE
    /\ claude_client' = claude_client
    /\ iteration' = 0
    /\ pc' = "loop"
\* the nested agent_chat(local_client, messages, base_path, claude_enabled=False,
\* claude_approved=False, display=display) is entered
EnterNested(n) ==
    /\ level' = n
    /\ claude_enabled' = FALSE
    /\ claude_approved' = FALSE
    /\ claude_client' = FALSE
    /\ iteration' = 0
    /\ pc' = "loop"

\* variant: the plan's request for information is not looked at
NeedsMoreInfoIgnored(pr) == FALSE
\* if plan_result.get("needs_more_info")
NeedsMoreInfo(pr) == pr.needs_more_info

\* claude_client.plan(user_request, context) and what follows up to the
\* first nested call
Plan ==
    /\ pc = "plan"
    /\ sup_log' = Append(sup_log, "plan")
    /\ \E response \in PlanRepliesOfRun :
       /\ plan_result' = plan(response)
       /\ IF plan_result'.shape # "object"
          THEN \* plan() raised, or plan_result.get on a value that is no mapping
               /\ pc' = "raised"
               /\ crash' = IF plan_result'.shape = "raise" THEN "plan" ELSE "plan_result"
               /\ UNCHANGED <<level, claude_enabled, claude_approved, claude_client,
                              iteration, messages, result>>
          ELSE IF NeedsMoreInfo(plan_result') /\ plan_result'.questions # "list"
          THEN \* "\n".join(f"- {q}" for q in questions) on a number
               /\ pc' = "raised"
               /\ crash' = "questions"
               /\ UNCHANGED <<level, claude_enabled, claude_approved, claude_client,
                              iteration, messages, result>>
          ELSE IF NeedsMoreInfo(plan_result')
          THEN /\ pc' = "returned"
               /\ result' = [text |-> <<"CW", "TX">>, how |-> "questions"]
               /\ UNCHANGED <<level, claude_enabled, claude_approved, claude_client,
                              iteration, messages, crash>>
          ELSE /\ messages' = AppendMsg(messages, Msg("user", "execution", <<"CW", "TX">>, <<>>))
               /\ EnterNested(1)
               /\ UNCHANGED <<result, crash>>
    /\ effect' = Effect(ChatEffect, "plan", Result("none", ""))
    /\ UNCHANGED <<sup_client, full_response, stream, flagVars, toolVars, h_response,
                   notices, constVars, iter_base, review_result, prompts, esc_in_command>>

\* variant: the status alone decides
ContinuesOnStatus(rr) == rr.status = "continue"
\* if status == "continue": next_steps = ...; if next_steps
Continues(rr) == rr.status = "continue" /\ rr.next_steps = "list"

\* claude_client.review(user_request, response) and what follows up to the
\* second nested call or the end
Review ==
    /\ pc = "review"
    /\ sup_log' = Append(sup_log, "review")
    /\ \E response \in ReviewReplies :
       /\ review_result' = review(response)
       /\ IF review_result'.shape # "object"
          THEN \* review() raised, or review_result.get on a value that is no mapping
               /\ pc' = "raised"
               /\ crash' = IF review_result'.shape = "raise" THEN "review" ELSE "review_result"
               /\ UNCHANGED <<level, claude_enabled, claude_approved, claude_client,
                              iteration, messages>>
          ELSE IF Continues(review_result')
          THEN /\ messages' = AppendMsg(AppendMsg(messages, AssistantMsg(h_response)),
                                        Msg("user", "continue", <<"TX">>, <<>>))
               /\ EnterNested(2)
               /\ UNCHANGED crash
          ELSE /\ pc' = "finish"
               /\ UNCHANGED <<level, claude_enabled, claude_approved, claude_client,
                              iteration, messages, crash>>
    /\ effect' = Effect(ChatEffect, "review", Result("none", ""))
    /\ UNCHANGED <<sup_client, full_response, stream, flagVars, toolVars, h_response,
                   notices, result, constVars, iter_base, plan_result, prompts, esc_in_command>>

\* final_response = f"{response}\n\n[Claude feedback: {feedback}]"; both
\* run_with_claude and the agent_chat that called it return
Finish ==
    /\ pc = "finish"
    /\ pc' = "returned"
    /\ result' = [text |-> h_response \o <<"FB">>, how |-> "handoff"]
    /\ effect' = NoEffect
    /\ UNCHANGED <<esc_in_command, handoffVars, level, paramVars, iteration, messages, full_response, stream,
                   flagVars, toolVars, h_response, sup_log, notices, constVars, histVars>>

\* --- check_escape_key threads ---
\* positions of agent_chat inside "for call in tool_calls"
ToolPcs == {"tool", "confirm_write", "confirm_run"}

\* a live listener reads ESC: stop_generation = True, the thread ends
ListenerEsc ==
    /\ listeners > 0
    /\ stop_generation' = TRUE
    /\ listeners' = listeners - 1
    /\ esc_in_command' = (esc_in_command \/ pc = "confirm_run")
    /\ effect' = NoEffect
    /\ UNCHANGED <<handoffVars, pc, level, paramVars, iteration, messages, full_response, stream,
                   toolVars, h_response, sup_log, notices, result, constVars, histVars>>

\* a live listener polls the flag, finds it set and ends
ListenerObserve ==
    /\ listeners > 0
    /\ stop_generation
    /\ listeners' = listeners - 1
    /\ effect' = NoEffect
    /\ UNCHANGED <<esc_in_command, handoffVars, pc, level, paramVars, iteration, messages, full_response, stream,
                   stop_generation, toolVars, h_response, sup_log, notices,
                   result, constVars, histVars>>

\* ------------------------------------------------------------------------
\* ClaudeClient.chat (claude_client.py): one request, statement by statement
\* ------------------------------------------------------------------------
\* what a chat call has given its caller: how is "pending", "returned" or
\* "raised"; value is "text" (an answer), "empty" (""), "null" (None) or
\* "marked" (a text that starts with "[Claude CLI Error]" or
\* "[Claude API Error]"); failure names the failure outcome met, and exc the
\* exception that left the call
ChatOut(how, value, failure, exc) ==
    [how |-> how, value |-> value, failure |-> failure, exc |-> exc]
ChatPending == ChatOut("pending", "none", "none", "none")
\* process and HTTP exchange before anything happened
ChatEnv == [proc |-> "none", rc |-> 0, status |-> "none", body |-> "none"]

\* what the claude process writes to stdout:
\*   "result"  {"result": "text"}     "null"  {"result": null}
\*   "other"   {"type": "x"}          "list"  []
\*   "prose"   text that is no JSON   "deep"  200000 opening brackets
StdoutKinds == {"result", "null", "other", "list", "prose", "deep"}
\* the body of a 200 response:
\*   "text"     {"content": [{"text": "answer"}]}   "empty"  {"content": []}
\*   "null"     {"content": [{"text": null}]}       "list"   []
\*   "item"     {"content": [3]}                     "prose"  no JSON
\*   "not_utf8" bytes that are no UTF-8
BodyKinds == {"text", "empty", "null", "list", "item", "prose", "not_utf8"}
\* the body of an error response: none (e.fp is None), UTF-8 text, bytes that
\* are no UTF-8, or a body whose read fails
ErrorBodies == {"none", "utf8", "not_utf8", "unreadable"}

\* return of a text with the error marker
ChatFails(failure) ==
    /\ c_pc' = "done"
    /\ c_out' = ChatOut("returned", "marked", failure, "none")
\* an exception nobody catches leaves chat
ChatEscapes(failure, exc) ==
    /\ c_pc' = "done"
    /\ c_out' = ChatOut("raised", "none", failure, exc)
\* return of what the supervisor answered
ChatReturns(value) ==
    /\ c_pc' = "done"
    /\ c_out' = ChatOut("returned", value, "none", "none")

\* chat(prompt, system): the mode selects the implementation
ChatCall ==
    /\ c_pc = "chat"
    /\ c_pc' = IF c_mode = "cli" THEN "popen" ELSE "urlopen"
    /\ UNCHANGED <<c_mode, c_system, c_env, c_out, parserVars, readerVars, agentVars, streamVars>>

\* _chat_cli: subprocess.Popen([claude_path, "-p", "-", ...])
CliPopen ==
    /\ c_pc = "popen"
    /\ \E outcome \in {"started", "FileNotFoundError", "PermissionError"} :
          IF outcome = "started"
          THEN /\ c_env' = [c_env EXCEPT !.proc = "running"]
               /\ c_pc' = "communicate"
               /\ UNCHANGED c_out
          ELSE /\ ChatFails(IF outcome = "FileNotFoundError" THEN "not_found" ELSE "exception")
               /\ UNCHANGED c_env
    /\ UNCHANGED <<c_mode, c_system, parserVars, readerVars, agentVars, streamVars>>

\* _chat_cli: process.communicate(input=full_prompt, timeout=120)
CliCommunicate ==
    /\ c_pc = "communicate"
    /\ \E outcome \in {"exit", "TimeoutExpired", "UnicodeDecodeError"} :
          IF outcome = "exit"
          THEN /\ \E rc \in {0, 1}, out \in StdoutKinds :
                     c_env' = [c_env EXCEPT !.proc = "exited", !.rc = rc, !.body = out]
               /\ c_pc' = "cli_result"
               /\ UNCHANGED c_out
          ELSE IF outcome = "TimeoutExpired"
          THEN \* process.kill(); return "[Claude CLI Error] Timeout"
               /\ c_env' = [c_env EXCEPT !.proc = "killed"]
               /\ ChatFails("timeout")
          ELSE /\ ChatFails("exception")
               /\ UNCHANGED c_env
    /\ UNCHANGED <<c_mode, c_system, parserVars, readerVars, agentVars, streamVars>>

\* _chat_cli: the return code, then json.loads(stdout) and data.get("result", "")
CliResult ==
    /\ c_pc = "cli_result"
    /\ IF c_env.rc # 0 THEN ChatFails("exit_code")
       ELSE CASE c_env.body = "result" -> ChatReturns("text")
              [] c_env.body = "null"   -> ChatReturns("null")
              [] c_env.body = "other"  -> ChatReturns("empty")
              [] c_env.body = "prose"  -> ChatReturns("text")
              \* AttributeError of [].get, RecursionError: except Exception
              [] c_env.body \in {"list", "deep"} -> ChatFails("exception")
    /\ UNCHANGED <<c_mode, c_system, c_env, parserVars, readerVars, agentVars, streamVars>>

\* _chat_api: the request is built (json.dumps of a payload of strings does
\* not raise) and urllib.request.urlopen(req, timeout=120) is called
ApiUrlopen ==
    /\ c_pc = "urlopen"
    /\ \E outcome \in {"response", "HTTPError", "URLError", "TimeoutError"} :
          IF outcome = "response"
          THEN /\ \E body \in BodyKinds :
                     c_env' = [c_env EXCEPT !.status = "200", !.body = body]
               /\ c_pc' = "api_result"
               /\ UNCHANGED c_out
          ELSE IF outcome = "HTTPError"
          THEN /\ \E status \in {"4xx", "5xx"}, body \in ErrorBodies :
                     c_env' = [c_env EXCEPT !.status = status, !.body = body]
               /\ c_pc' = "http_error"
               /\ UNCHANGED c_out
          ELSE /\ ChatFails(IF outcome = "TimeoutError" THEN "timeout" ELSE "exception")
               /\ UNCHANGED c_env
    /\ UNCHANGED <<c_mode, c_system, parserVars, readerVars, agentVars, streamVars>>

\* _chat_api: json.loads(response.read().decode()), content[0].get("text", "")
ApiResult ==
    /\ c_pc = "api_result"
    /\ CASE c_env.body = "text"  -> ChatReturns("text")
         [] c_env.body = "empty" -> ChatReturns("empty")
         [] c_env.body = "null"  -> ChatReturns("null")
         \* json.JSONDecodeError, AttributeError, UnicodeDecodeError: except Exception
         [] OTHER -> ChatFails("exception")
    /\ UNCHANGED <<c_mode, c_system, c_env, parserVars, readerVars, agentVars, streamVars>>

\* _chat_api, except urllib.error.HTTPError as e:
\*     error_body = e.read().decode() if e.fp else ""
\* what read() or decode() raises inside the clause is caught by no clause
ApiHttpError ==
    /\ c_pc = "http_error"
    /\ CASE c_env.body \in {"none", "utf8"} -> ChatFails("http_error")
         [] c_env.body = "not_utf8"   -> ChatEscapes("http_error", "UnicodeDecodeError")
         [] c_env.body = "unreadable" -> ChatEscapes("http_error", "ConnectionResetError")
    /\ UNCHANGED <<c_mode, c_system, c_env, parserVars, readerVars, agentVars, streamVars>>

ChatOff ==
    /\ c_pc = "off" /\ c_mode = "cli" /\ c_system = FALSE
    /\ c_env = ChatEnv /\ c_out = ChatPending

\* ClaudeClient(mode).chat(prompt, system) is called
ChatInput ==
    /\ c_pc = "chat" /\ c_mode \in {"cli", "api"} /\ c_system \in BOOLEAN
    /\ c_env = ChatEnv /\ c_out = ChatPending

\* ------------------------------------------------------------------------
\* APIClient._stream_sse (api_client.py): the retry loop of the transport
\* ------------------------------------------------------------------------
MAX_RETRIES == 3
\* seconds
RETRY_DELAY == 1

\* events one attempt may yield in the model
MaxYields == 2

\* an entry of the log: a connection attempt and how it ended, a sleep of so
\* many seconds, or an event handed to the consumer
LogAttempt(outcome) == [what |-> "attempt", outcome |-> outcome, seconds |-> 0]
LogSleep(seconds) == [what |-> "sleep", outcome |-> "", seconds |-> seconds]
LogYield == [what |-> "yield", outcome |-> "", seconds |-> 0]

\* what client.stream(...) and response.raise_for_status() end with
ConnectOutcomes == {"ok", "ConnectError", "ConnectTimeout", "status_4xx", "status_5xx",
                    "ReadTimeout"}

\* RETRY_DELAY * (attempt + 1)
RetrySleep(attempt) == RETRY_DELAY * (attempt + 1)

\* the failures the two except clauses keep in last_error
Retriable(outcome) == outcome \in {"ConnectError", "ConnectTimeout", "status_5xx"}

\* variant: the loop admits one attempt more
MoreAttemptsInclusive(attempt) == attempt <= MAX_RETRIES
\* for attempt in range(self.MAX_RETRIES): the loop body runs for this value
MoreAttempts(attempt) == attempt < MAX_RETRIES

\* one pass of the loop body up to the first line of the response: the
\* connection is opened and the status checked
StreamAttempt ==
    /\ t_pc = "attempt"
    /\ MoreAttempts(t_attempt)
    /\ \E outcome \in ConnectOutcomes :
       /\ t_log' = Append(t_log, LogAttempt(outcome))
       /\ IF outcome = "ok"
          THEN /\ t_pc' = "lines"
               /\ UNCHANGED <<t_attempt, t_last_error, t_error>>
          ELSE IF Retriable(outcome)
          THEN \* last_error = e; sleep and continue unless it was the last attempt
               /\ t_last_error' = outcome
               /\ t_pc' = IF t_attempt < MAX_RETRIES - 1 THEN "sleep" ELSE "attempt"
               /\ t_attempt' = IF t_attempt < MAX_RETRIES - 1 THEN t_attempt ELSE t_attempt + 1
               /\ UNCHANGED t_error
          ELSE \* a 4xx status is raised again; any other exception is not caught
               /\ t_pc' = "raised"
               /\ t_error' = outcome
               /\ UNCHANGED <<t_attempt, t_last_error>>
    /\ UNCHANGED <<parserVars, readerVars, agentVars, chatVars>>

\* await asyncio.sleep(self.RETRY_DELAY * (attempt + 1)); continue
StreamSleep ==
    /\ t_pc = "sleep"
    /\ t_log' = Append(t_log, LogSleep(RetrySleep(t_attempt)))
    /\ t_attempt' = t_attempt + 1
    /\ t_pc' = "attempt"
    /\ UNCHANGED <<t_last_error, t_error, parserVars, readerVars, agentVars, chatVars>>

\* variant: a failed read is followed by the next attempt
LineFailureRetried == "attempt"
\* where an exception raised while the lines are read goes: the two except
\* clauses name connect and status errors only, so it leaves the generator
LineFailure == "raised"

\* async for line in response.aiter_lines(): a data line with JSON is yielded,
\* any other line is skipped, the end of the body returns, and a failure of
\* the read (httpx.ReadError) is caught by neither except clause
StreamLine ==
    /\ t_pc = "lines"
    /\ \E line \in {"data", "skipped", "end", "ReadError"} :
          /\ line = "data" =>
                Cardinality({i \in 1..Len(t_log) : t_log[i].what = "yield"}) < MaxYields
          /\ t_log' = IF line = "data" THEN Append(t_log, LogYield) ELSE t_log
          /\ t_pc' = CASE line = "end" -> "returned"
                       [] line = "ReadError" -> LineFailure
                       [] OTHER -> "lines"
          /\ t_error' = IF line = "ReadError" THEN "ReadError" ELSE t_error
    /\ UNCHANGED <<t_attempt, t_last_error, parserVars, readerVars, agentVars, chatVars>>

\* after the loop: if last_error: raise last_error
StreamExhausted ==
    /\ t_pc = "attempt"
    /\ ~MoreAttempts(t_attempt)
    /\ IF t_last_error # "none"
       THEN t_pc' = "raised" /\ t_error' = t_last_error
       ELSE t_pc' = "returned" /\ UNCHANGED t_error
    /\ UNCHANGED <<t_attempt, t_last_error, t_log, parserVars, readerVars, agentVars, chatVars>>

StreamOff ==
    /\ t_pc = "off" /\ t_attempt = 0 /\ t_last_error = "none"
    /\ t_log = <<>> /\ t_error = "none"

\* _stream_sse is called: last_error = None, attempt = 0
StreamInput ==
    /\ t_pc = "attempt" /\ t_attempt = 0 /\ t_last_error = "none"
    /\ t_log = <<>> /\ t_error = "none"

\* ------------------------------------------------------------------------
\* Specifications
\* ------------------------------------------------------------------------
AgentOff ==
    /\ pc = "off" /\ level = 0
    /\ claude_enabled = FALSE /\ claude_approved = FALSE /\ claude_client = FALSE
    /\ sup_client = FALSE /\ iteration = 0 /\ messages = <<>> /\ input_messages = <<>>
    /\ full_response = <<>> /\ stream = <<>> /\ stop_generation = FALSE
    /\ listeners = 0 /\ windows = FALSE /\ tool_calls = <<>> /\ call_idx = 0
    /\ tool_results = <<>> /\ proposal = NoProposal /\ fs = "absent"
    /\ effect = NoEffect /\ answer = "none" /\ h_response = <<>> /\ sup_log = <<>>
    /\ notices = {} /\ result = NoResult /\ llm_kind = "plain" /\ llm_level = 0
    /\ iter_base = <<>> /\ crash = "none" /\ sup_mode = "cli"
    /\ plan_result = NoReply /\ review_result = NoReply /\ prompts = <<>>
    /\ esc_in_command = FALSE

SystemPrompt == Msg("system", "prompt", <<"TX">>, <<>>)
\* the conversations agent_chat is called with
Inputs ==
    { <<SystemPrompt, Msg("user", "request", <<"TX">>, <<>>)>>,
      <<SystemPrompt, Msg("user", "request", <<"TX", "CW">>, <<>>)>> }

\* (claude_enabled, claude_approved, claude_client)
Configs == { <<FALSE, FALSE, FALSE>>, <<FALSE, FALSE, TRUE>>, <<TRUE, FALSE, TRUE>>,
             <<TRUE, TRUE, TRUE>>, <<TRUE, FALSE, FALSE>> }

AgentInput ==
    /\ pc = "idle" /\ level = 0
    /\ \E c \in Configs :
          /\ claude_enabled = c[1] /\ claude_approved = c[2] /\ claude_client = c[3]
    /\ sup_client = FALSE /\ iteration = 0
    /\ input_messages \in Inputs /\ messages = input_messages
    /\ full_response = <<>> /\ stream = <<>> /\ stop_generation = FALSE
    /\ listeners = 0 /\ windows \in BOOLEAN /\ tool_calls = <<>> /\ call_idx = 0
    /\ tool_results = <<>> /\ proposal = NoProposal /\ fs = "absent"
    /\ effect = NoEffect /\ answer = "none" /\ h_response = <<>> /\ sup_log = <<>>
    /\ notices = {} /\ result = NoResult /\ llm_kind \in LlmKinds
    /\ llm_level \in (IF claude_enabled /\ ~claude_approved /\ claude_client
                         /\ llm_kind \in NestedKinds
                      THEN 0..2 ELSE {0})
    /\ iter_base = input_messages /\ crash = "none"
    /\ sup_mode \in (IF claude_client /\ llm_kind = "ask" THEN {"cli", "api"} ELSE {"cli"})
    /\ plan_result = NoReply /\ review_result = NoReply /\ prompts = <<>>
    /\ esc_in_command = FALSE

Init == AgentInput /\ ParserOff /\ ReaderOff /\ ChatOff /\ StreamOff

Next ==
    \/ AgentChatStart \/ PreConfirm \/ StartIteration \/ MaxIterationsReached
    \/ StreamEvent \/ StreamEnd \/ ClaudeConfirm \/ Dispatch
    \/ ExecTool \/ ConfirmWrite \/ ConfirmRun \/ EndTools
    \/ Plan \/ Review \/ Finish
    \/ ListenerEsc \/ ListenerObserve

Spec == Init /\ [][Next]_vars

InitParser == ParserInput /\ ReaderOff /\ AgentOff /\ ChatOff /\ StreamOff
NextParser == ParseStep
SpecParser == InitParser /\ [][NextParser]_vars

InitReader == ReaderInput /\ ParserOff /\ AgentOff /\ ChatOff /\ StreamOff
NextReader == ReadToken \/ ReadDone
SpecReader == InitReader /\ [][NextReader]_vars

InitChat == ChatInput /\ ParserOff /\ ReaderOff /\ AgentOff /\ StreamOff
NextChat ==
    \/ ChatCall \/ CliPopen \/ CliCommunicate \/ CliResult
    \/ ApiUrlopen \/ ApiResult \/ ApiHttpError
SpecChat == InitChat /\ [][NextChat]_vars

InitStream == StreamInput /\ ParserOff /\ ReaderOff /\ AgentOff /\ ChatOff
NextStream == StreamAttempt \/ StreamSleep \/ StreamLine \/ StreamExhausted
SpecStream == InitStream /\ [][NextStream]_vars

\* ------------------------------------------------------------------------
\* Properties
\* ------------------------------------------------------------------------
IsPrefix(a, b) == Len(a) <= Len(b) /\ SubSeq(b, 1, Len(a)) = a

\* positions of agent_chat between the end of the stream and the end of the
\* iteration
IterPcs == {"claude_confirm", "dispatch", "tool", "confirm_write", "confirm_run"}
\* positions at which the running agent_chat has returned to its caller
ReturnPcs == {"returned", "review", "finish"}
\* the text the running agent_chat returns in the step
ReturnedText == IF level = 0 THEN result'.text ELSE h_response'

\* C1: an agent_chat call makes at most MAX_ITERATIONS model calls, each one
\* counted by iteration, and after the first call of its own it makes another
\* one only when the response before contained a tool call; when the loop
\* condition fails it returns
C1_Terminates ==
    /\ [](iteration <= MAX_ITERATIONS)
    /\ [][ /\ (pc = "loop" /\ pc' = "stream") =>
                /\ iteration' = iteration + 1
                /\ iteration < MAX_ITERATIONS
                /\ (iteration = 0 \/ tool_calls # <<>>)
           /\ (pc \in {"claude_confirm", "dispatch"} /\ tool_calls = <<>> /\ pc' # pc) =>
                pc' \in ReturnPcs \cup {"plan", "dispatch"}
           /\ (pc = "loop" /\ iteration = MAX_ITERATIONS /\ pc' # pc) => pc' \in ReturnPcs
         ]_vars
C1_Witness ==
    /\ pc = "returned" /\ result.how = "max_iterations"
    /\ iteration = MAX_ITERATIONS

\* C2: a step writes the file or spawns a process for write_file / run_command
\* only as the answer "y" to the confirmation prompt of that call; the handler
\* step itself has no effect and returns the proposal; any other answer gives
\* the result {cancelled, "User cancelled"} and changes nothing
C2_ConfirmedEffects ==
    [][ /\ (effect'.kind # "none" /\ effect'.tool \in {"NW", "NC"}) =>
              (pc \in {"confirm_write", "confirm_run"} /\ answer' = "y")
        /\ fs' # fs => (pc = "confirm_write" /\ answer' = "y")
        /\ (pc = "tool" /\ pc' \in {"confirm_write", "confirm_run"}) =>
              /\ effect'.kind = "none"
              /\ effect'.returned.status = "proposal"
              /\ proposal' = effect'.returned
        /\ (pc \in {"confirm_write", "confirm_run"} /\ pc' # pc /\ answer' # "y") =>
              /\ fs' = fs
              /\ effect'.kind = "none"
              /\ Len(tool_results') = Len(tool_results) + 1
              /\ tool_results'[Len(tool_results')].result
                    = [status |-> "cancelled", detail |-> "User cancelled", path |-> "",
                       old |-> "", new |-> "", command |-> ""]
      ]_vars
C2_Witness ==
    /\ effect.kind = "write" /\ answer = "y" /\ fs = "SN"

\* C3: at every moment, and so whenever agent_chat returns, the message list
\* begins with the messages of the input, unchanged and in their order
C3_InputIsPrefix == IsPrefix(input_messages, messages)
C3_Witness ==
    /\ pc = "returned" /\ result.how = "handoff"
    /\ Len(messages) >= Len(input_messages) + 4

\* C4 as stated: when an iteration ends, a response with a tool call has
\* added exactly the assistant message and the tool-results message, and a
\* response without one has added nothing and the text is returned
C4_EveryIteration ==
    [][ (pc \in IterPcs /\ pc' \notin IterPcs) =>
          IF tool_calls # <<>>
          THEN /\ Len(messages') = Len(iter_base) + 2
               /\ IsPrefix(iter_base, messages')
               /\ messages'[Len(iter_base) + 1] =
                     [role |-> "assistant", kind |-> "assistant",
                      text |-> full_response, results |-> <<>>]
               /\ messages'[Len(iter_base) + 2].role = "user"
               /\ messages'[Len(iter_base) + 2].kind = "tool_results"
          ELSE /\ messages' = iter_base
               /\ pc' \in ReturnPcs
               /\ ReturnedText = full_response
      ]_vars

\* C4 amended: the same for every iteration in which no hand-off is granted,
\* the tool-results message being added when all calls have been processed;
\* an iteration in which the hand-off is granted adds neither message
C4_WithoutHandoff ==
    [][ (pc \in IterPcs /\ pc' \notin IterPcs) =>
          IF pc' = "plan" THEN messages' = iter_base
          ELSE IF tool_calls # <<>>
          THEN /\ IsPrefix(iter_base, messages')
               /\ Len(messages') >= Len(iter_base) + 1
               /\ messages'[Len(iter_base) + 1] =
                     [role |-> "assistant", kind |-> "assistant",
                      text |-> full_response, results |-> <<>>]
               /\ IF pc' = "loop"
                  THEN /\ Len(messages') = Len(iter_base) + 2
                       /\ messages'[Len(iter_base) + 2] =
                             [role |-> "user", kind |-> "tool_results",
                              text |-> <<"TR">>, results |-> tool_results]
                       /\ Len(tool_results) = Len(tool_calls)
                  ELSE /\ pc' = "raised"
                       /\ Len(messages') = Len(iter_base) + 1
          ELSE /\ messages' = iter_base
               /\ pc' \in ReturnPcs
               /\ ReturnedText = full_response
      ]_vars
C4_Witness ==
    /\ pc = "loop" /\ iteration >= 1
    /\ Len(messages) = Len(iter_base) + 2
    /\ claude_enabled /\ ~claude_approved /\ claude_client

\* C5: when the reader takes an event while the ESC flag is set, it consumes
\* nothing more: agent_chat returns the text accumulated so far, the text is
\* not parsed, no tool runs, no message is added in the iteration, and the
\* notice is "stopped" and no error
C5_CancelStops ==
    [][ (/\ pc = "stream" /\ stop_generation
         /\ stream # <<>> /\ stream' = Tail(stream)
         /\ Head(stream).type # "raise") =>
          /\ pc' \in ReturnPcs
          /\ ReturnedText = full_response
          /\ full_response' = full_response
          /\ level = 0 => result'.how = "stopped"
          /\ tool_calls' = tool_calls /\ tool_results' = tool_results
          /\ call_idx' = call_idx
          /\ effect' = NoEffect /\ fs' = fs
          /\ messages' = messages /\ messages = iter_base
          /\ notices' = notices \cup {"stopped"}
      ]_vars
C5_Witness ==
    /\ pc = "returned" /\ result.how = "stopped"
    /\ result.text # <<>> /\ stream # <<>>
    /\ "error" \notin notices

\* the text without its think spans, and the content of the spans
ExpectedVisible(ps) ==
    ps.v1 \o (IF ps.span THEN ps.v2 ELSE <<>>) \o (IF ps.again THEN <<"z">> ELSE <<>>)
ExpectedDimmed(ps) ==
    (IF ps.span THEN ps.t1 ELSE <<>>) \o (IF ps.again THEN <<"x", "y">> ELSE <<>>)

\* C6: however the text is cut into chunks, what the reader has shown so far
\* is a beginning of the text without its think spans (so no piece of a marker
\* is ever shown), what it has dimmed is a beginning of the span contents, and
\* after the done event both are complete
C6_ChunkingInvariance ==
    /\ IsPrefix(r_reader.visible, ExpectedVisible(r_parts))
    /\ IsPrefix(r_reader.dimmed, ExpectedDimmed(r_parts))
    /\ r_pc = "done" =>
          /\ r_reader.visible = ExpectedVisible(r_parts)
          /\ r_reader.dimmed = ExpectedDimmed(r_parts)
C6_Witness ==
    /\ r_pc = "done" /\ r_parts.span /\ r_parts.again
    /\ Len(r_parts.v1) > Lookback
    /\ \E c \in r_cuts : Len(r_parts.v1) < c /\ c < Len(r_parts.v1) + Len(ThinkOpen)
    /\ r_reader.dimmed # <<>>

\* C7: the list parse_tool_calls returns contains no call twice
C7_NoDuplicates ==
    (p_pc = "parsed" /\ ~p_result.raised) =>
        \A i, j \in 1..Len(p_result.calls) :
            i # j => p_result.calls[i] # p_result.calls[j]

\* the segments are well-formed calls, all in one convention, no call twice
OneConvention(segs) ==
    /\ \A i \in 1..Len(segs) : segs[i] \in CallSegments /\ segs[i].kind = segs[1].kind
    /\ \A i, j \in 1..Len(segs) :
          i # j => CallValue(segs[i].name, segs[i].args) # CallValue(segs[j].name, segs[j].args)

\* C8: a text that serializes a list of distinct well-formed calls in one
\* convention parses to that list, in that order
C8_RoundTrip ==
    (p_pc = "parsed" /\ OneConvention(p_segs)) =>
        /\ ~p_result.raised
        /\ p_result.calls = [i \in 1..Len(p_segs) |-> CallValue(p_segs[i].name, p_segs[i].args)]

\* the segments that are not candidates failing to decode
RECURSIVE Decodable(_)
Decodable(segs) ==
    IF segs = <<>> THEN <<>>
    ELSE IF IsBadSegment(Head(segs)) \/ Head(segs).kind = "deep_bare"
         THEN Decodable(Tail(segs))
         ELSE <<Head(segs)>> \o Decodable(Tail(segs))

\* C9: parse_tool_calls raises on no text, and the candidates that fail to
\* decode change nothing: the result is that of the text without them
C9_NeverRaises ==
    p_pc = "parsed" =>
        /\ ~p_result.raised
        /\ p_result.calls = parse_tool_calls(TextOf(Decodable(p_segs))).calls

\* the call agent_chat is executing
CurrentName == ToolNameOf(tool_calls[call_idx])
CurrentArgs == PathAdjust(JGetOr(tool_calls[call_idx], "KA", JObj({})))

C11_FailureIsData ==
    [][ /\ pc = "tool" => pc' # "raised"
        /\ (pc = "tool" /\ call_idx <= Len(tool_calls) /\ pc' = "tool") =>
              /\ call_idx' = call_idx + 1
              /\ Len(tool_results') = call_idx
        /\ (pc = "tool" /\ pc' = "loop") =>
              /\ Len(tool_results) = Len(tool_calls)
              /\ messages' = Append(messages, [role |-> "user", kind |-> "tool_results",
                                               text |-> <<"TR">>, results |-> tool_results])
      ]_vars

\* the user declines the prompt of a write_file / run_command call
DeclineStep ==
    /\ pc \in {"confirm_write", "confirm_run"} /\ pc' # pc
    /\ answer' \in {"n", ""}
\* the reader takes an event while the ESC flag is set
StopStep ==
    /\ pc = "stream" /\ stop_generation
    /\ stream # <<>> /\ stream' = Tail(stream)
    /\ Head(stream).type # "raise"
\* the mapping {"cancelled": True, "message": "User cancelled"}
CancelledResult ==
    [status |-> "cancelled", detail |-> "User cancelled", path |-> "", old |-> "",
     new |-> "", command |-> ""]

\* C12 as stated: a declined prompt and a pressed cancel key both become a
\* {cancelled: true} result that reaches the conversation in a user-role
\* tool-results message, and neither raises
C12_BothCancellations ==
    [][ /\ DeclineStep =>
              /\ pc' = "tool"
              /\ tool_results' = Append(tool_results,
                                        [tool |-> CurrentName, result |-> CancelledResult])
        /\ StopStep =>
              /\ pc' # "raised"
              /\ Len(messages') = Len(messages) + 1
              /\ messages'[Len(messages')].role = "user"
              /\ messages'[Len(messages')].kind = "tool_results"
              /\ \E i \in 1..Len(messages'[Len(messages')].results) :
                    messages'[Len(messages')].results[i].result = CancelledResult
      ]_vars

\* C12 amended: declining the prompt of a write_file / run_command call gives
\* the result {cancelled: true, "User cancelled"} for that call, which is part
\* of the user-role tool-results message added when the calls of the iteration
\* have been processed; the cancel key observed during streaming makes
\* agent_chat return the text so far, with no result and no message added;
\* neither raises
C12_DeclineIsData ==
    [][ /\ DeclineStep =>
              /\ pc' = "tool"
              /\ tool_results' = Append(tool_results,
                                        [tool |-> CurrentName, result |-> CancelledResult])
        /\ (pc = "tool" /\ pc' = "loop") =>
              /\ messages' = Append(messages, [role |-> "user", kind |-> "tool_results",
                                               text |-> <<"TR">>, results |-> tool_results])
        /\ StopStep =>
              /\ pc' \in ReturnPcs
              /\ ReturnedText = full_response
              /\ messages' = messages
              /\ tool_results' = tool_results
              /\ crash' = "none"
      ]_vars
C12_Witness ==
    /\ pc = "returned" /\ result.how = "stopped"
    /\ \E i \in 1..Len(messages) :
          /\ messages[i].role = "user" /\ messages[i].kind = "tool_results"
          /\ \E j \in 1..Len(messages[i].results) :
                messages[i].results[j].result = CancelledResult

\* the transport delivers an error event, or raises
FatalStep ==
    /\ pc = "stream" /\ stream # <<>> /\ stream' = Tail(stream)
    /\ Head(stream).type \in {"error", "raise"}

\* C13: an error event or an exception of the transport in an iteration ends
\* agent_chat: it returns the text accumulated in the iteration, no call of
\* the iteration is parsed or run, and the message list is the one the
\* iteration started with, which begins with the caller's messages
C13_FatalStreamEnds ==
    [][ FatalStep =>
          /\ pc' \in ReturnPcs
          /\ ReturnedText = full_response
          /\ messages' = messages /\ messages = iter_base
          /\ IsPrefix(input_messages, messages')
          /\ tool_calls' = tool_calls /\ tool_results' = tool_results
          /\ call_idx' = call_idx
          /\ effect' = NoEffect /\ fs' = fs
          /\ crash' = "none"
      ]_vars
C13_Witness ==
    /\ pc = "returned" /\ result.how = "error"
    /\ result.text # <<>> /\ iteration = 2
    /\ Len(messages) = Len(input_messages) + 2

\* C14: agent_chat reports "max iterations" only after MAX_ITERATIONS model
\* calls each of which gave a tool call: the last 2 * MAX_ITERATIONS messages
\* are the assistant / tool-results pairs of its iterations, it returns the
\* text of the last response, and after iteration MAX_ITERATIONS it makes no
\* model call but returns
C14_MaxIterations ==
    [][ /\ (pc = "loop" /\ pc' \in ReturnPcs) =>
              /\ iteration = MAX_ITERATIONS
              /\ "max_iterations" \in notices'
              /\ level = 0 => result'.how = "max_iterations"
              /\ ReturnedText = full_response
              /\ Len(messages) >= 2 * MAX_ITERATIONS
              /\ messages' = messages
              /\ \A k \in 1..MAX_ITERATIONS :
                    /\ messages[Len(messages) - 2 * k + 1].role = "assistant"
                    /\ messages[Len(messages) - 2 * k + 2].kind = "tool_results"
              /\ messages[Len(messages) - 1].text = full_response
        /\ (pc = "loop" /\ iteration = MAX_ITERATIONS /\ pc' # pc) => pc' \in ReturnPcs
        /\ (pc = "loop" /\ pc' = "stream") => iteration < MAX_ITERATIONS
      ]_vars
C14_Witness ==
    /\ pc = "returned" /\ result.how = "max_iterations"
    /\ Len(messages) = Len(input_messages) + 2 * MAX_ITERATIONS
    /\ result.text = messages[Len(messages) - 1].text
    /\ result.text # <<>>

\* C15: with the keyword in the user's message and supervisor mode armed and
\* not approved, agent_chat asks before any model call, and when that prompt
\* is declined it enters the loop and no request (plan, review, chat) goes
\* to the supervisor for the rest of the invocation
C15_DeclinedAtStart ==
    /\ [][ (pc = "idle" /\ Armed /\ detect_claude_keyword(UserRequest(messages))) =>
              (pc' = "pre_confirm" /\ iteration' = 0) ]_vars
    /\ [][ (pc = "pre_confirm" /\ pc' # pc /\ ~prompts'[1].granted) =>
              (pc' = "loop" /\ iteration' = 0) ]_vars
    /\ []((prompts # <<>> /\ prompts[1].where = "start" /\ ~prompts[1].granted) =>
              sup_log = <<>>)

Last(s) == s[Len(s)]

\* C16: a plan request goes to the supervisor only from the caller's
\* agent_chat and only in the step after a hand-off prompt of that call was
\* answered with yes; the keyword check and the end of the stream lead to the
\* prompt, never to the plan; a declined prompt starts nothing; and a prompt
\* is shown only with supervisor mode on, not approved and a client given
C16_HandoffNeedsYes ==
    /\ [][ /\ (sup_log' # sup_log /\ Last(sup_log') = "plan") =>
                /\ pc = "plan" /\ level = 0
                /\ prompts # <<>> /\ Last(prompts).granted
           /\ (pc' = "plan" /\ pc # "plan") =>
                /\ pc \in {"pre_confirm", "claude_confirm"}
                /\ prompts' = Append(prompts, Last(prompts'))
                /\ Last(prompts').granted
           /\ (pc \in {"pre_confirm", "claude_confirm"} /\ pc' # pc /\ ~Last(prompts').granted) =>
                /\ pc' \in {"loop", "dispatch"}
                /\ sup_log' = sup_log
           /\ prompts' # prompts => pc \in {"pre_confirm", "claude_confirm"}
         ]_vars
    /\ [](pc \in {"pre_confirm", "claude_confirm"} =>
            (level = 0 /\ claude_enabled /\ ~claude_approved /\ claude_client))
    /\ []((level = 0 /\ ~(claude_enabled /\ ~claude_approved /\ claude_client)) =>
            (prompts = <<>> /\ ~InSeq("plan", sup_log)))
C16_Witness ==
    /\ level = 1 /\ sup_log = <<"plan">>
    /\ Last(prompts) = [where |-> "loop", granted |-> TRUE]
    /\ ~detect_claude_keyword(UserRequest(input_messages))

\* number of requests of one kind sent to the supervisor
Requests(kind) == Cardinality({i \in 1..Len(sup_log) : sup_log[i] = kind})
\* positions inside an agent_chat call
LoopPcs == {"loop", "stream", "claude_confirm", "dispatch", "tool", "confirm_write",
            "confirm_run"}

\* C17: a hand-off makes one plan request and at most one review request and
\* enters a nested agent_chat at most twice: the first after the plan, the
\* second from the review and only when its status is "continue" and its
\* next_steps are not empty; when the second returns, the hand-off returns
\* without another review
C17_AtMostTwoNested ==
    /\ [](level \in 0..2 /\ Requests("plan") <= 1 /\ Requests("review") <= 1)
    /\ [][ /\ level' # level =>
                \/ level = 0 /\ level' = 1 /\ pc = "plan"
                \/ /\ level = 1 /\ level' = 2 /\ pc = "review"
                   /\ review_result'.status = "continue"
                   /\ review_result'.next_steps = "list"
           /\ (pc = "review" /\ pc' # pc /\ review_result'.shape = "object"
               /\ ~(review_result'.status = "continue" /\ review_result'.next_steps = "list")) =>
                (pc' = "finish" /\ level' = level /\ messages' = messages)
           /\ (level = 2 /\ pc \in LoopPcs /\ pc' \notin LoopPcs) =>
                (pc' \in {"finish", "raised"} /\ sup_log' = sup_log)
           /\ (pc = "finish" /\ pc' # pc) => (pc' = "returned" /\ sup_log' = sup_log)
           /\ pc = "returned" => pc' = "returned"
         ]_vars
C17_Witness ==
    /\ pc = "returned" /\ result.how = "handoff" /\ level = 2
    /\ sup_log = <<"plan", "review">>
    /\ review_result.status = "continue"

\* C18: inside a nested agent_chat supervisor mode is off and no client is
\* given: no hand-off prompt is shown, no hand-off starts, the depth does not
\* change, no request reaches the supervisor, and an ask_claude call gets the
\* result {error: "Claude not available..."}
C18_NestedIsUnsupervised ==
    /\ []((level >= 1 /\ pc \in LoopPcs) =>
            /\ ~claude_enabled /\ ~claude_client
            /\ pc # "claude_confirm")
    /\ [](level >= 1 => pc \notin {"pre_confirm", "plan"})
    /\ [][ /\ (level >= 1 /\ pc \in LoopPcs) =>
                /\ sup_log' = sup_log /\ prompts' = prompts
                /\ level' = level
                /\ pc' \notin {"pre_confirm", "claude_confirm", "plan"}
           /\ (/\ level >= 1 /\ pc = "tool" /\ call_idx <= Len(tool_calls)
               /\ CurrentName = "NA" /\ call_idx' = call_idx + 1) =>
                Last(tool_results') =
                   [tool |-> "NA",
                    result |-> [status |-> "error", detail |-> "Claude not available",
                                path |-> "", old |-> "", new |-> "", command |-> ""]]
         ]_vars
C18_Witness ==
    /\ level = 1 /\ pc = "tool" /\ tool_results # <<>>
    /\ Last(tool_results).tool = "NA"
    /\ Last(tool_results).result.status = "error"
    /\ sup_log = <<"plan">>

\* C19: when the plan is a mapping with needs_more_info set (and questions a
\* list), the hand-off returns the question list at once: no nested
\* agent_chat is entered, no review is requested and the message list is left
\* as it was
C19_NeedsMoreInfoEnds ==
    /\ [][ (/\ pc = "plan" /\ pc' # pc
            /\ plan_result'.shape = "object" /\ plan_result'.needs_more_info
            /\ plan_result'.questions = "list") =>
              /\ pc' = "returned" /\ result'.how = "questions"
              /\ result'.text = <<"CW", "TX">>
              /\ level' = 0 /\ iteration' = iteration
              /\ messages' = messages
              /\ sup_log' = Append(sup_log, "plan")
         ]_vars
    /\ [](result.how = "questions" =>
            /\ pc = "returned" /\ level = 0
            /\ plan_result.needs_more_info
            /\ Requests("review") = 0
            /\ \A i \in 1..Len(messages) : messages[i].kind \notin {"execution", "continue"})
C19_Witness ==
    /\ pc = "returned" /\ result.how = "questions"
    /\ Last(prompts) = [where |-> "loop", granted |-> TRUE]
    /\ Len(messages) = Len(input_messages) + 2

\* C20: whatever text the supervisor replies, plan() and review() return a
\* mapping and the hand-off reads it without an exception
C20_NeverAnError ==
    /\ plan_result.shape \in {"none", "object"}
    /\ review_result.shape \in {"none", "object"}
    /\ crash \notin {"plan", "plan_result", "questions", "review", "review_result"}

\* C21: ClaudeClient.chat lets no exception out, in cli mode and in api mode,
\* and whenever the request met a failure (exit code, timeout, command not
\* found, HTTP error, another exception) it returns a text that starts with
\* "[Claude"
C21_NeverRaises ==
    /\ c_out.how # "raised"
    /\ (c_out.how = "returned" /\ c_out.failure # "none") => c_out.value = "marked"

\* attempts, sleeps and yields of the log
Attempts == SelectSeq(t_log, LAMBDA e : e.what = "attempt")
Sleeps == SelectSeq(t_log, LAMBDA e : e.what = "sleep")
Yields == SelectSeq(t_log, LAMBDA e : e.what = "yield")

\* C24: _stream_sse opens at most MAX_RETRIES connections per call; a connect
\* error or connect timeout is followed by a sleep of 1 s after the first and
\* 2 s after the second attempt and then by the next attempt; a 4xx status is
\* raised in the step it is met, as the last entry of the log; and after
\* MAX_RETRIES failed attempts the error of the last one is raised: the
\* generator never ends without an error after an attempt that failed last
C24_BoundedRetries ==
    /\ [](Len(Attempts) <= MAX_RETRIES)
    /\ [](\A i \in 1..Len(Sleeps) : Sleeps[i].seconds = i)
    /\ [](Len(Sleeps) <= MAX_RETRIES - 1)
    /\ [][ /\ (t_pc = "attempt" /\ Len(t_log') > Len(t_log)
               /\ t_log'[Len(t_log')].outcome \in {"ConnectError", "ConnectTimeout"}) =>
                 IF Len(Attempts) < MAX_RETRIES - 1
                 THEN t_pc' = "sleep" /\ t_error' = "none"
                 ELSE t_pc' = "attempt" /\ t_attempt' = MAX_RETRIES
           /\ t_pc = "sleep" =>
                 /\ t_pc' = "attempt"
                 /\ t_log' = Append(t_log, [what |-> "sleep", outcome |-> "",
                                            seconds |-> Len(Attempts)])
           /\ (t_pc = "attempt" /\ Len(t_log') > Len(t_log)
               /\ t_log'[Len(t_log')].outcome = "status_4xx") =>
                 (t_pc' = "raised" /\ t_error' = "status_4xx")
           /\ t_pc = "raised" => UNCHANGED streamVars
           /\ (t_pc = "attempt" /\ t_attempt = MAX_RETRIES /\ t_pc' # t_pc) =>
                 /\ t_pc' = "raised"
                 /\ t_error' = t_log[Len(t_log)].outcome
                 /\ t_log' = t_log
         ]_vars
    /\ [](t_pc = "returned" =>
            (Attempts # <<>> /\ Attempts[Len(Attempts)].outcome = "ok"))
C24_Witness ==
    /\ t_pc = "raised" /\ t_error = "ConnectTimeout"
    /\ Len(Attempts) = MAX_RETRIES
    /\ Attempts[1].outcome = "ConnectError"
    /\ Len(Sleeps) = 2 /\ Sleeps[2].seconds = 2

\* C22: while the calls of a response are processed, a step writes a file or
\* starts a process only as the answer "y" to the confirmation prompt of the
\* call, whatever the tool
C22_NoUnconfirmedEffect ==
    [][ (pc \in ToolPcs /\ effect'.kind # "none") =>
           (pc \in {"confirm_write", "confirm_run"} /\ answer' = "y") ]_vars

\* the step finishes the processing of the current call
CallDone == pc \in ToolPcs /\ call_idx' # call_idx

\* C23: the calls of a response are processed one at a time in the parsed
\* order: the results so far are those of the calls before the current one,
\* in that order; the handler, the prompt and the side effect of a call come
\* before the next call is looked at; a prompt waits for the current call
\* only; the tool-results message is added when every call has its result,
\* and only then the next model call starts; no call is processed while
\* events of the stream are outstanding
C23_Sequential ==
    /\ [](pc \in ToolPcs =>
            /\ call_idx \in 1..(Len(tool_calls) + 1)
            /\ Len(tool_results) = call_idx - 1
            /\ \A i \in 1..Len(tool_results) :
                  tool_results[i].tool = ToolNameOf(tool_calls[i])
            /\ stream = <<>>)
    /\ [](pc \in {"confirm_write", "confirm_run"} <=> proposal # NoProposal)
    /\ [](pc \in {"confirm_write", "confirm_run"} =>
            /\ call_idx <= Len(tool_calls)
            /\ ToolNameOf(tool_calls[call_idx]) = (IF pc = "confirm_write" THEN "NW" ELSE "NC")
            /\ proposal.detail = (IF pc = "confirm_write" THEN "write_file" ELSE "run_command"))
    /\ [][ /\ CallDone =>
                /\ call_idx' = call_idx + 1
                /\ Len(tool_results') = Len(tool_results) + 1
                /\ SubSeq(tool_results', 1, Len(tool_results)) = tool_results
                /\ tool_results'[call_idx].tool = ToolNameOf(tool_calls[call_idx])
                /\ pc' = "tool" /\ tool_calls' = tool_calls
           /\ (pc \in ToolPcs /\ effect'.kind # "none") =>
                effect'.tool = ToolNameOf(tool_calls[call_idx])
           /\ (pc = "tool" /\ pc' \in {"confirm_write", "confirm_run"}) =>
                (call_idx' = call_idx /\ tool_results' = tool_results)
           /\ (pc \in ToolPcs /\ pc' \notin ToolPcs /\ pc' # "raised") =>
                /\ pc = "tool" /\ pc' = "loop"
                /\ Len(tool_results) = Len(tool_calls)
                /\ messages'[Len(messages')].results = tool_results
           /\ (pc' = "stream" /\ pc # "stream") => pc = "loop"
           /\ (pc' = "tool" /\ pc \notin ToolPcs) => (pc = "dispatch" /\ stream = <<>>)
         ]_vars
C23_Witness ==
    /\ pc = "loop" /\ iteration = 1 /\ Len(tool_calls) = 2
    /\ Len(tool_results) = 2
    /\ tool_results[1].tool = "NW" /\ tool_results[1].result.status = "success"
    /\ tool_results[2].tool = "NC" /\ tool_results[2].result.status = "success"
    /\ fs = "SN"
    /\ ToolNameOf(tool_calls[1]) = "NW"

\* a listener thread ends in the step
ListenerStep == listeners' = listeners - 1

\* C25: the flag is looked at in the streaming phase only. While the calls of
\* an iteration are processed, a listener that reads ESC changes nothing the
\* loop works with, no step there ends agent_chat as stopped, and every call
\* gets its result; the next iteration starts with the flag reset, and during
\* its stream the flag is set only by a key read in that phase
C25_ToolsIgnoreCancel ==
    [][ /\ (pc \in ToolPcs /\ ListenerStep) =>
              UNCHANGED <<pc, call_idx, tool_calls, tool_results, proposal, messages, fs,
                          result, notices, iteration, stop_generation>>
        /\ pc \in ToolPcs =>
              /\ pc' \in ToolPcs \cup {"loop", "raised"}
              /\ notices' = notices /\ result' = result
        /\ (pc = "tool" /\ pc' = "loop") => Len(tool_results) = Len(tool_calls)
        /\ (pc = "loop" /\ pc' = "stream") => ~stop_generation'
        /\ (pc = "stream" /\ pc' = "stream" /\ ~stop_generation /\ stop_generation') =>
              ListenerStep
      ]_vars
C25_Witness ==
    /\ esc_in_command
    /\ pc = "returned" /\ result.how = "final" /\ iteration = 2
    /\ "stopped" \notin notices
    /\ messages[Len(messages)].kind = "tool_results"
    /\ messages[Len(messages)].results[1].tool = "NC"
    /\ messages[Len(messages)].results[1].result.status = "success"

\* the reader takes the next event of the stream
EventStep ==
    /\ pc = "stream" /\ stream # <<>> /\ stream' # stream
    /\ Head(stream).type # "raise"

\* C26: the flag is read once for every event, before anything is done with
\* the event. With the flag set the reader stops at the event, whatever its
\* type: the text is left as it was and returned, and the events that remain
\* are never taken. With the flag clear the event is processed whole: a token
\* is appended and the reader goes on
C26_CheckedPerEvent ==
    [][ /\ EventStep =>
              /\ stream' = Tail(stream)
              /\ IF stop_generation
                 THEN /\ pc' \in ReturnPcs
                      /\ full_response' = full_response
                      /\ ReturnedText = full_response
                      /\ notices' = notices \cup {"stopped"}
                 ELSE /\ "stopped" \in notices' => "stopped" \in notices
                      /\ Head(stream).type = "token" =>
                            (pc' = "stream" /\ full_response' = full_response \o Head(stream).content)
                      /\ Head(stream).type \in {"start", "done"} =>
                            (pc' = "stream" /\ full_response' = full_response)
        /\ (pc # "stream" /\ stream' # stream) => pc = "loop"
        /\ (pc # "stream" /\ full_response' # full_response) => pc = "loop"
      ]_vars
C26_Witness ==
    /\ pc = "returned" /\ result.how = "stopped"
    /\ result.text = <<>> /\ full_response = <<>>
    /\ Len(stream) >= 2 /\ stream[1].type = "token" /\ stream[1].content # <<>>

\* C27: inside the loop the hand-off prompt is reached only from the end of a
\* stream that ran to its last event, in the step that parses the tool calls
\* of the response, and it is reached exactly when supervisor mode is armed and
\* the response holds the request marker or the user request the keyword; a
\* granted prompt goes to run_with_claude with the message list as it was when
\* the iteration started and with no call of the response processed, the
\* caller's loop is never resumed, and what run_with_claude returns is what
\* agent_chat returns
C27_HandoffAfterParse ==
    /\ [][ /\ (pc' = "claude_confirm" /\ pc # "claude_confirm") =>
                /\ pc = "stream" /\ stream = <<>>
                /\ ~parse_tool_calls(full_response).raised
                /\ tool_calls' = parse_tool_calls(full_response).calls
                /\ "stopped" \notin notices'
           /\ (/\ pc = "stream" /\ stream = <<>> /\ pc' # pc
               /\ ~parse_tool_calls(full_response).raised) =>
                (pc' = "claude_confirm" <=>
                   /\ claude_enabled /\ ~claude_approved /\ claude_client
                   /\ \/ InSeq("RQ", full_response)
                      \/ InSeq("CW", UserRequest(messages)))
           /\ (pc = "claude_confirm" /\ pc' # pc /\ Last(prompts').granted) =>
                /\ pc' = "plan"
                /\ messages' = messages /\ messages = iter_base
                /\ tool_results' = tool_results /\ call_idx' = call_idx
                /\ fs' = fs /\ effect'.kind = "none"
         ]_vars
    /\ []((prompts # <<>> /\ Last(prompts).granted /\ level = 0) =>
            pc \in {"plan", "returned", "raised"})
    /\ []((prompts # <<>> /\ Last(prompts).granted /\ pc = "returned") =>
            result.how \in {"handoff", "questions"})
    /\ []((pc = "plan" /\ Last(prompts).where = "loop") => messages = iter_base)
C27_Witness ==
    /\ pc = "plan" /\ tool_calls # <<>>
    /\ Last(prompts) = [where |-> "loop", granted |-> TRUE]
    /\ InSeq("RQ", full_response)
    /\ ~InSeq("CW", UserRequest(messages))
    /\ messages = input_messages

\* the plan and review requests sent to the supervisor, in order
HandoffRequests == SelectSeq(sup_log, LAMBDA k : k \in {"plan", "review"})

\* C28: a hand-off sends the plan request first, runs the first nested
\* agent_chat, sends the review request in the step after that call returned
\* (final text, stop, error event or iteration limit alike) with the text it
\* returned, runs at most one more nested agent_chat after the review, and
\* returns the text of the last nested call followed by the feedback; no
\* second plan and no second review is sent
C28_StrictOrder ==
    /\ [](HandoffRequests \in {<<>>, <<"plan">>, <<"plan", "review">>})
    /\ []((level = 1 /\ pc \in LoopPcs) => HandoffRequests = <<"plan">>)
    /\ []((level = 2 /\ pc \in LoopPcs) => HandoffRequests = <<"plan", "review">>)
    /\ []((pc = "review") => (level = 1 /\ HandoffRequests = <<"plan">>))
    /\ [][ /\ (level = 1 /\ pc \in LoopPcs /\ pc' \notin LoopPcs /\ pc' # "raised") =>
                /\ pc' = "review"
                /\ h_response' = full_response
                /\ sup_log' = sup_log
           /\ (pc = "review" /\ pc' # pc) =>
                /\ sup_log' = Append(sup_log, "review")
                /\ h_response' = h_response
                /\ pc' \in {"loop", "finish", "raised"}
                /\ pc' = "loop" => (level' = 2 /\ iteration' = 0)
           /\ (level = 2 /\ pc \in LoopPcs /\ pc' \notin LoopPcs /\ pc' # "raised") =>
                /\ pc' = "finish"
                /\ h_response' = full_response
                /\ sup_log' = sup_log
           /\ (pc = "finish" /\ pc' # pc) =>
                /\ pc' = "returned"
                /\ result'.how = "handoff"
                /\ result'.text = h_response \o <<"FB">>
           /\ (level' # level) => (level' = level + 1 /\ pc' = "loop" /\ iteration' = 0)
         ]_vars
    /\ [](result.how = "handoff" =>
            (pc = "returned" /\ level \in {1, 2} /\ HandoffRequests = <<"plan", "review">>))
C28_Witness ==
    /\ pc = "returned" /\ result.how = "handoff" /\ level = 1
    /\ "stopped" \in notices
    /\ result.text = h_response \o <<"FB">> /\ h_response # <<>>
    /\ HandoffRequests = <<"plan", "review">>

\* where the name of the call stands in the response text (0: nowhere)
NamePos(call) ==
    LET hits == {i \in 1..Len(full_response) : full_response[i] = ToolNameOf(call)}
    IN  IF hits = {} THEN 0 ELSE CHOOSE i \in hits : \A k \in hits : i <= k

DeniedCommands == {"SD", "SU"}
\* the call agent_chat is executing is a run_command call whose arguments
\* bind and whose command is one of them
DeniedCall ==
    /\ pc = "tool" /\ call_idx <= Len(tool_calls)
    /\ CurrentName = "NC" /\ ~CurrentArgs.raised
    /\ ~BindFails("NC", CurrentArgs.args)
    /\ JGet(CurrentArgs.args, "KM").k = "str"
    /\ JGet(CurrentArgs.args, "KM").s \in DeniedCommands

\* C30: a run_command call whose command holds a denylist pattern, in lower
\* or upper case, gets the result {error: "Dangerous command blocked"} from
\* the handler: the step shows no prompt, starts no process, raises nothing
\* and moves on to the next call; no prompt is ever shown and no process ever
\* started for such a command
C30_DenylistBlocks ==
    /\ [][ /\ (DeniedCall /\ (pc' # pc \/ call_idx' # call_idx)) =>
                /\ pc' = "tool" /\ call_idx' = call_idx + 1
                /\ tool_results' =
                      Append(tool_results,
                             [tool |-> "NC",
                              result |-> [status |-> "error",
                                          detail |-> "Dangerous command blocked",
                                          path |-> "", old |-> "", new |-> "",
                                          command |-> ""]])
                /\ effect'.kind = "none"
                /\ proposal' = NoProposal
                /\ prompts' = prompts /\ crash' = "none" /\ fs' = fs
           /\ (pc = "confirm_run" /\ effect'.kind = "spawn") =>
                proposal.command \notin DeniedCommands
         ]_vars
    /\ [](pc = "confirm_run" => proposal.command \notin DeniedCommands)
C30_Witness ==
    /\ full_response = RDangerUpper
    /\ pc = "loop" /\ iteration = 1
    /\ Last(messages).kind = "tool_results"
    /\ Len(Last(messages).results) = 1
    /\ Last(messages).results[1].result.detail = "Dangerous command blocked"

\* C31: every command that is run after a yes runs with a limit, which is
\* 30 s when the call gives none; a command that timed out gets the result
\* {error: "Command timed out"} and the loop goes on with the next call
C31_FiniteTimeout ==
    [][ /\ (pc = "confirm_run" /\ effect'.kind = "spawn") =>
             /\ RunTimeout(CurrentArgs.args).finite
             /\ ~JHasKey(CurrentArgs.args, "KO") => RunTimeout(CurrentArgs.args).seconds = 30
        /\ (/\ pc = "confirm_run" /\ pc' # pc
            /\ Last(tool_results').result.detail = "Command timed out") =>
             /\ Last(tool_results').result.status = "error"
             /\ pc' = "tool" /\ call_idx' = call_idx + 1
      ]_vars

\* the arguments of the call agent_chat is executing, as the model wrote them
WrittenArgs == JGetOr(tool_calls[call_idx], "KA", JObj({}))

\* C32: when the loop passes a call to execute_tool, a path the call gives
\* that is absolute is passed as it is, a path that is not absolute is
\* passed joined to the base directory, and the path passed is absolute
C32_PathsResolved ==
    [][ (/\ pc = "tool" /\ call_idx <= Len(tool_calls)
         /\ (pc' # pc \/ call_idx' # call_idx) /\ pc' # "raised"
         /\ JHasKey(WrittenArgs, "KP")) =>
          LET given == JGet(WrittenArgs, "KP").s
              passed == JGet(CurrentArgs.args, "KP").s IN
          /\ given \in {"SQ", "SJ"} => passed = given
          /\ given = "SP" => passed = "SQ"
          /\ passed \in {"SQ", "SJ"}
      ]_vars

\* the text of the last message a user typed or run_with_claude wrote: role
\* user and not built from tool results
LastRequestText(msgs) ==
    LET real == {i \in 1..Len(msgs) : msgs[i].role = "user" /\ msgs[i].kind # "tool_results"}
    IN  IF real = {} THEN <<>>
        ELSE msgs[CHOOSE i \in real : \A k \in real : k <= i].text

\* C33: the message the loop appends after the calls of an iteration has
\* role user and begins with "Tool results:", and both hand-off checks look
\* for the keyword in the last user message that is no such message, however
\* many tool-results messages follow it
C33_MarkerExcluded ==
    /\ [][ /\ (pc = "tool" /\ pc' = "loop") =>
                /\ Len(messages') = Len(messages) + 1
                /\ Last(messages').role = "user"
                /\ Last(messages').text # <<>> /\ Last(messages').text[1] = "TR"
                /\ Last(messages').results = tool_results
           /\ (/\ pc = "idle" /\ pc' # pc
               /\ claude_enabled /\ ~claude_approved /\ claude_client) =>
                (pc' = "pre_confirm" <=> InSeq("CW", LastRequestText(messages)))
           /\ (/\ pc = "stream" /\ stream = <<>> /\ pc' # pc /\ pc' # "raised"
               /\ claude_enabled /\ ~claude_approved /\ claude_client
               /\ ~InSeq("RQ", full_response)) =>
                (pc' = "claude_confirm" <=> InSeq("CW", LastRequestText(messages)))
         ]_vars
    /\ [](\A i \in 1..Len(messages) :
            messages[i].kind = "tool_results" =>
               (messages[i].role = "user" /\ messages[i].text = <<"TR">>))
C33_Witness ==
    /\ pc = "claude_confirm" /\ iteration = 2
    /\ Last(messages).kind = "tool_results"
    /\ ~InSeq("RQ", full_response)
    /\ InSeq("CW", LastRequestText(messages))

\* C34: the text agent_chat returns as the final answer holds nothing of what
\* the model wrote between <think> and </think>
C34_ThinkExcluded ==
    (pc = "returned" /\ result.how = "final") => ~InSeq("TT", result.text)

\* what the character at position i of the text of ps is: visible text
\* ("v"), text of a think span ("d") or part of a marker ("m")
CharClass(ps, i) ==
    LET a == Len(ps.v1)
        b == IF ps.span THEN a + 7 + Len(ps.t1) + 8 + Len(ps.v2) ELSE a IN
    IF i <= a THEN "v"
    ELSE IF i <= b
    THEN IF i <= a + 7 THEN "m"
         ELSE IF i <= a + 7 + Len(ps.t1) THEN "d"
         ELSE IF i <= a + 7 + Len(ps.t1) + 8 THEN "m"
         ELSE "v"
    ELSE IF i <= b + 7 THEN "m"
    ELSE IF i <= b + 9 THEN "d"
    ELSE IF i <= b + 17 THEN "m"
    ELSE "v"
\* the characters of one class among the first n of the text, in order
Picked(ps, n, class) ==
    LET at == SelectSeq([i \in 1..n |-> i], LAMBDA i : CharClass(ps, i) = class)
    IN  [j \in 1..Len(at) |-> PartsText(ps)[at[j]]]

\* C35: after every token event at most 10 characters are pending, the
\* pending characters are the last ones read, and of the characters before
\* them those outside the markers have been printed once and in order, the
\* text of think spans dimmed and the rest plain
C35_BufferBounded ==
    r_pc = "reading" =>
       LET done == r_pos - Len(r_reader.buffer) IN
       /\ Len(r_reader.buffer) <= 10
       /\ done >= 0
       /\ r_reader.buffer = SubSeq(PartsText(r_parts), done + 1, r_pos)
       /\ r_reader.visible = Picked(r_parts, done, "v")
       /\ r_reader.dimmed = Picked(r_parts, done, "d")
C35_Witness ==
    /\ r_pc = "reading" /\ r_pos > 0
    /\ Len(r_reader.buffer) = 10 /\ r_reader.in_think
    /\ r_reader.visible # <<>> /\ r_reader.dimmed # <<>>

\* C36: once an event has been yielded no connection is opened and no sleep
\* is made any more; an attempt is followed by another one only when it ended
\* with a connect error, a connect timeout or a 5xx status, and all events
\* yielded in a call come from one attempt, the last
C36_NoRetryAfterYield ==
    /\ [](\A i, j \in 1..Len(t_log) :
            (i < j /\ t_log[i].what = "yield") => t_log[j].what = "yield")
    /\ [](\A i \in 1..(Len(Attempts) - 1) :
            Attempts[i].outcome \in {"ConnectError", "ConnectTimeout", "status_5xx"})
    /\ [](Yields # <<>> =>
            /\ t_pc \in {"lines", "returned", "raised"}
            /\ Attempts[Len(Attempts)].outcome = "ok")
    /\ [][ (Yields # <<>> /\ t_pc' # t_pc) =>
              (t_pc' \in {"returned", "raised"} /\ t_attempt' = t_attempt) ]_vars
C36_Witness ==
    /\ Len(Attempts) = 2 /\ Len(Yields) = 2
    /\ t_pc = "raised" /\ t_error = "ReadError"

\* C37: a listener thread ends only in a step that leaves the flag set, and
\* the start of an iteration clears the flag and adds a thread without
\* waiting for the threads alive: a thread that has not polled the flag since
\* the end of the last stream is still alive afterwards, next to the new one
C37_TwoListeners ==
    /\ [][ /\ listeners' < listeners =>
                (listeners' = listeners - 1 /\ stop_generation')
           /\ listeners' > listeners =>
                (pc = "loop" /\ pc' = "stream" /\ windows)
           /\ (pc = "loop" /\ pc' = "stream") =>
                /\ ~stop_generation'
                /\ listeners' = IF windows THEN listeners + 1 ELSE listeners
           /\ (pc = "stream" /\ pc' # pc) => stop_generation'
         ]_vars
    /\ [](listeners >= 1 => windows)
C37_Witness ==
    /\ listeners = 2 /\ ~stop_generation
    /\ pc = "stream" /\ iteration = 2 /\ level = 0
    /\ "stopped" \notin notices

\* C38: every step in which an agent_chat call that has made a model call
\* stops running its loop (it returns, or it hands the request over) leaves
\* the flag set, and the flag is set whenever such a call has returned, so a
\* listener thread still alive then ends at its next poll
C38_FlagSetOnReturn ==
    /\ [][ (pc \in LoopPcs /\ pc' \notin LoopPcs /\ pc' # "raised") =>
              (iteration >= 1 /\ stop_generation') ]_vars
    /\ []((pc \in ReturnPcs /\ (iteration >= 1 \/ level >= 1)) => stop_generation)
    /\ [][ (pc \in ReturnPcs /\ listeners' < listeners) => stop_generation ]_vars
C38_Witness ==
    /\ pc = "returned" /\ result.how = "final" /\ iteration = 2
    /\ listeners = 2 /\ stop_generation /\ level = 0

\* the call agent_chat is executing is an ask_claude call whose arguments are
\* a mapping with a question that is a string, or with none
AskCall ==
    /\ pc = "tool" /\ call_idx <= Len(tool_calls)
    /\ CurrentName = "NA" /\ ~CurrentArgs.raised
    /\ CurrentArgs.args.k = "obj"
    /\ JGetOr(CurrentArgs.args, "KQ", JStr("TX")).k = "str"

\* C39: with a supervisor client an ask_claude call is sent to the supervisor
\* in the step that executes it, with no prompt before or after, whatever
\* claude_enabled and claude_approved are; without a client nothing is sent
\* and the call gets the result {error: "Claude not available..."}
C39_AskForwarded ==
    [][ (AskCall /\ (pc' # pc \/ call_idx' # call_idx)) =>
           /\ prompts' = prompts /\ answer' = "none"
           /\ pc' \in {"tool", "raised"}
           /\ IF claude_client
              THEN /\ sup_log' = Append(sup_log, "chat")
                   /\ pc' = "tool" =>
                        (call_idx' = call_idx + 1 /\ Last(tool_results').result.status = "success")
              ELSE /\ sup_log' = sup_log
                   /\ effect'.kind = "none"
                   /\ pc' = "tool" /\ call_idx' = call_idx + 1
                   /\ tool_results' =
                         Append(tool_results,
                                [tool |-> "NA",
                                 result |-> [status |-> "error", detail |-> "Claude not available",
                                             path |-> "", old |-> "", new |-> "", command |-> ""]])
      ]_vars
C39_Witness ==
    /\ claude_client /\ ~claude_enabled /\ level = 0
    /\ pc = "tool" /\ sup_log = <<"chat">> /\ prompts = <<>>
    /\ Last(tool_results).tool = "NA" /\ Last(tool_results).result.status = "success"

\* the plan the hand-off got is an error-marked text of the transport
PlanIsError(pr) == pr.raw # <<>> /\ pr.raw[1] = "EM"

\* C40: when the reply to the plan request is an error-marked text, plan()
\* returns it as the plan with no steps, the hand-off appends the execution
\* instruction as a user message and enters the first nested agent_chat, and
\* when that call returns the review request is made
C40_ErrorPlanContinues ==
    [][ /\ (pc = "plan" /\ pc' # pc /\ PlanIsError(plan_result')) =>
             /\ plan_result'.shape = "object"
             /\ plan_result'.steps = "empty" /\ ~plan_result'.needs_more_info
             /\ pc' = "loop" /\ level' = 1 /\ iteration' = 0
             /\ messages' = Append(messages, [role |-> "user", kind |-> "execution",
                                              text |-> <<"CW", "TX">>, results |-> <<>>])
        /\ (/\ PlanIsError(plan_result) /\ level = 1
            /\ pc \in LoopPcs /\ pc' \notin LoopPcs /\ pc' # "raised") =>
             pc' = "review"
        /\ (PlanIsError(plan_result) /\ pc = "review" /\ pc' # pc) =>
             sup_log' = Append(sup_log, "review")
      ]_vars
C40_Witness ==
    /\ pc = "returned" /\ result.how = "handoff"
    /\ plan_result.raw = <<"EM", "TX">>
    /\ HandoffRequests = <<"plan", "review">>

====
